---- MODULE Spec2Model ----
(***************************************************************************)
(* The HIR -> LIR rationalization phase of the JIT (src/jit/rationalize.cpp) *)
(* as a state machine.  The node arena, the per-block linear order          *)
(* (gtPrev/gtNext), the call argument tables, the tree walk with its        *)
(* ancestor stack and the phase driver are the state; one action per        *)
(* driver step and per rewrite rule of Rationalizer::RewriteNode.           *)
(*                                                                         *)
(* Scope: FEATURE_SIMD paths are modelled with comp->featureSIMD false and  *)
(* no SIMD-typed node in the input; _TARGET_XARCH_ is defined.              *)
(***************************************************************************)
EXTENDS Integers, Sequences, FiniteSets, TLC

VARIABLES
    nodes,               \* the node arena: id -> GenTree record
    blocks,              \* the function's basic blocks, in bbNext order
    lvaRefCnt,           \* lclNum -> reference count (lvaTable[..].lvRefCnt)
    pc,                  \* position of DoPhase
    curBlock,            \* index of `block` in DoPhase's outer loop
    curStmt,             \* `statement` of the inner loops (0: none)
    nextStmt,            \* `nextStatement` of the rewrite loop
    lastPrev,            \* lastNodeInPreviousStatement of the pre-pass loop
    frames,              \* activation records of fgWalkTreePost, innermost first
    parentStack,         \* fgWalkData::parentStack, Index(0) first
    fgOrder,             \* comp->fgOrder
    compRationalIRForm,  \* comp->compRationalIRForm
    ev,                  \* history: what the last callback did
    formK,               \* form-conversion harness: the kind under conversion
    formLog              \* form-conversion harness: conversions applied so far

vars == <<nodes, blocks, lvaRefCnt, pc, curBlock, curStmt, nextStmt, lastPrev, frames,
          parentStack, fgOrder, compRationalIRForm, ev, formK, formLog>>

progVars == <<nodes, blocks, lvaRefCnt, pc, curBlock, curStmt, nextStmt, lastPrev, frames,
              parentStack, fgOrder, compRationalIRForm, ev>>

-----------------------------------------------------------------------------
(* Bounds of the model *)

\* largest number of tree nodes of the statement under test
MaxNodes == 3
\* largest number of blocks of a multi-statement function
MaxBlocks == 2
\* largest number of statements of a multi-statement function
MaxStmts == 2
\* longest chain of form conversions applied to one kind
MaxChain == 2

-----------------------------------------------------------------------------
(* Flag classes *)

GTF_ALL_EFFECT == {"GTF_ASG", "GTF_CALL", "GTF_EXCEPT", "GTF_GLOB_REF", "GTF_ORDER_SIDEEFF"}

GTF_LIVENESS_MASK == {"GTF_VAR_DEF", "GTF_VAR_USEASG", "GTF_REG_BIRTH", "GTF_VAR_DEATH"}

GTF_IND_FLAGS == {"GTF_IND_VOLATILE", "GTF_IND_TGTANYWHERE", "GTF_IND_NONFAULTING",
                  "GTF_IND_UNALIGNED", "GTF_IND_INVARIANT"}

GTF_BLK_ASG_FLAGS == GTF_ALL_EFFECT \cup {"GTF_REVERSE_OPS", "GTF_BLK_VOLATILE",
                                          "GTF_BLK_UNALIGNED", "GTF_BLK_INIT", "GTF_DONT_CSE"}

-----------------------------------------------------------------------------
(* Operator kinds *)

LeafOpers == {"GT_CNS_INT", "GT_LCL_VAR", "GT_LCL_FLD", "GT_REG_VAR", "GT_PHI_ARG",
              "GT_CLS_VAR", "GT_ARGPLACE", "GT_LCL_VAR_ADDR", "GT_LCL_FLD_ADDR",
              "GT_CLS_VAR_ADDR", "GT_IL_OFFSET"}

UnaryOpers == {"GT_IND", "GT_ADDR", "GT_BOX", "GT_NOP", "GT_PHI", "GT_BLK", "GT_OBJ",
               "GT_STORE_LCL_VAR", "GT_STORE_LCL_FLD", "GT_STMT"}

BinaryOpers == {"GT_ASG", "GT_COMMA", "GT_ADD", "GT_LIST", "GT_INTRINSIC", "GT_STOREIND",
                "GT_DYN_BLK", "GT_STORE_BLK", "GT_STORE_OBJ", "GT_STORE_DYN_BLK", "GT_CALL"}

genTreeOps == LeafOpers \cup UnaryOpers \cup BinaryOpers

\* GenTree::OperIsLocal
OperIsLocal(o) == o \in {"GT_LCL_VAR", "GT_PHI_ARG", "GT_REG_VAR", "GT_LCL_FLD",
                         "GT_STORE_LCL_VAR", "GT_STORE_LCL_FLD"}

\* GenTree::OperIsLocalRead
OperIsLocalRead(o) == o \in {"GT_LCL_VAR", "GT_LCL_FLD"}

\* GenTree::OperIsIndir
OperIsIndir(o) == o \in {"GT_IND", "GT_STOREIND", "GT_BLK", "GT_OBJ", "GT_DYN_BLK",
                         "GT_STORE_BLK", "GT_STORE_OBJ", "GT_STORE_DYN_BLK"}

\* the outcome of a conversion that hits noway_assert / unreached
FATAL == "FATAL"

\* a faulty storeForm: a register variable is given the store of a local
storeForm_RegVar(loadOp) ==
    CASE loadOp \in {"GT_LCL_VAR", "GT_REG_VAR"} -> "GT_STORE_LCL_VAR"
      [] loadOp = "GT_LCL_FLD" -> "GT_STORE_LCL_FLD"
      [] OTHER -> FATAL

\* storeForm: the store equivalent of a load opcode
storeForm(loadOp) ==
    CASE loadOp = "GT_LCL_VAR" -> "GT_STORE_LCL_VAR"
      [] loadOp = "GT_LCL_FLD" -> "GT_STORE_LCL_FLD"
      [] loadOp = "GT_REG_VAR" -> FATAL
      [] OTHER -> FATAL

\* a faulty addrForm: a local field gets the address kind of a local variable
addrForm_AlwaysVar(loadOp) ==
    CASE loadOp \in {"GT_LCL_VAR", "GT_LCL_FLD"} -> "GT_LCL_VAR_ADDR"
      [] OTHER -> FATAL

\* addrForm: the address equivalent of a load opcode
addrForm(loadOp) ==
    CASE loadOp = "GT_LCL_VAR" -> "GT_LCL_VAR_ADDR"
      [] loadOp = "GT_LCL_FLD" -> "GT_LCL_FLD_ADDR"
      [] OTHER -> FATAL

\* a faulty loadForm: the read kinds are accepted too
loadForm_AlsoReads(addrOp) ==
    CASE addrOp \in {"GT_LCL_VAR_ADDR", "GT_LCL_VAR"} -> "GT_LCL_VAR"
      [] addrOp \in {"GT_LCL_FLD_ADDR", "GT_LCL_FLD"} -> "GT_LCL_FLD"
      [] OTHER -> FATAL

\* a faulty loadForm: the two address kinds are exchanged
loadForm_Swapped(addrOp) ==
    CASE addrOp = "GT_LCL_VAR_ADDR" -> "GT_LCL_FLD"
      [] addrOp = "GT_LCL_FLD_ADDR" -> "GT_LCL_VAR"
      [] OTHER -> FATAL

\* loadForm: the load equivalent of an address opcode
loadForm(addrOp) ==
    CASE addrOp = "GT_LCL_VAR_ADDR" -> "GT_LCL_VAR"
      [] addrOp = "GT_LCL_FLD_ADDR" -> "GT_LCL_FLD"
      [] OTHER -> FATAL

-----------------------------------------------------------------------------
(* Nodes *)

Nil == <<>>

\* a freshly constructed GenTree
NewNode(oper, type, flags, op1, op2) ==
    [oper |-> oper, gtType |-> type, gtFlags |-> flags, gtOp1 |-> op1, gtOp2 |-> op2,
     gtPrev |-> 0, gtNext |-> 0,
     gtLclNum |-> 0, gtSsaNum |-> 0, gtLclOffs |-> 0, gtFieldSeq |-> 0,
     userCall |-> FALSE, argTab |-> <<>>,
     gtStmtList |-> 0, gtStmtILoffsx |-> 0, home |-> 0]

\* a faulty copyFlags: the destination keeps its own bits of the mask
copyFlags_KeepDst(dstFlags, srcFlags, mask) == dstFlags \cup (srcFlags \cap mask)

\* copyFlags: copy the flags determined by mask from src to dst
copyFlags(dstFlags, srcFlags, mask) == (dstFlags \ mask) \cup (srcFlags \cap mask)

-----------------------------------------------------------------------------
(* The input: tree-shaped statements as the upstream phases hand them over. *)
(* A tree is <<oper, op1, op2, variant>>; Nil is the null operand.          *)

Tr(o, a, b, v) == <<o, a, b, v>>

Leaf(o) == Tr(o, Nil, Nil, "")

Cns == Leaf("GT_CNS_INT")

\* GT_CALL(args): gtCallArgs is a GT_LIST chain, gtCallLateArgs is empty
Call1(a) == Tr("GT_CALL", Tr("GT_LIST", a, Nil, ""), Nil, "")

Call2(a, b) == Tr("GT_CALL", Tr("GT_LIST", a, Tr("GT_LIST", b, Nil, ""), ""), Nil, "")

\* a call whose only argument is a late argument: a placeholder in gtCallArgs,
\* the argument itself (marked GTF_LATE_ARG) in gtCallLateArgs
CallLate(a) == Tr("GT_CALL", Tr("GT_LIST", Leaf("GT_ARGPLACE"), Nil, ""),
                  Tr("GT_LIST", a, Nil, ""), "")

GenLeaves == {Cns, Leaf("GT_LCL_VAR"), Leaf("GT_CLS_VAR")}

GenUnary == {<<"GT_IND", "">>, <<"GT_ADDR", "">>, <<"GT_BOX", "">>, <<"GT_NOP", "">>,
             <<"GT_INTRINSIC", "user">>}

GenBinary == {<<"GT_ASG", "">>, <<"GT_ASG", "rev">>, <<"GT_COMMA", "">>, <<"GT_ADD", "">>}

\* gtSetEvalOrder evaluates the value of an assignment to a local leaf first
NormRev(o, a, v) == IF o = "GT_ASG" /\ a[1] \in {"GT_LCL_VAR", "GT_LCL_FLD", "GT_REG_VAR"}
                    THEN "rev" ELSE v

\* what an assignment may have as its left operand
IsLocation(t) == t[1] \in {"GT_LCL_VAR", "GT_LCL_FLD", "GT_REG_VAR", "GT_PHI_ARG", "GT_CLS_VAR",
                           "GT_IND", "GT_BLK", "GT_OBJ", "GT_DYN_BLK"}

RECURSIVE TreesOfSize(_)
TreesOfSize(n) ==
    IF n <= 0 THEN {}
    ELSE IF n = 1 THEN GenLeaves
    ELSE LET sub == [i \in 1..(n - 1) |-> TreesOfSize(i)]
         IN  {Tr(u[1], t, Nil, u[2]) : u \in GenUnary, t \in sub[n - 1]}
             \cup {Call1(t) : t \in sub[n - 1]}
             \cup {t \in UNION {{Tr(b[1], x, y, NormRev(b[1], x, b[2])) :
                                      b \in GenBinary, x \in sub[i], y \in sub[n - 1 - i]} :
                                 i \in 1..(n - 2)} :
                       t[1] = "GT_ASG" => IsLocation(t[2])}

TreesUpTo(n) == UNION {TreesOfSize(i) : i \in 1..n}

\* shapes outside the generated grammar: local fields, register variables,
\* block stores, phi lists, aggregates, target intrinsics, childless no-ops
ExtraTrees ==
    {Tr("GT_ASG", Leaf("GT_LCL_FLD"), Cns, "rev"),
     Tr("GT_ASG", Leaf("GT_REG_VAR"), Cns, "rev"),
     Tr("GT_ASG", Leaf("GT_PHI_ARG"), Cns, "rev"),
     Tr("GT_ADDR", Leaf("GT_LCL_FLD"), Nil, ""),
     Tr("GT_ASG", Tr("GT_BLK", Leaf("GT_LCL_VAR"), Nil, ""), Cns, ""),
     Tr("GT_ASG", Tr("GT_BLK", Leaf("GT_LCL_VAR"), Nil, ""), Tr("GT_IND", Cns, Nil, ""), "rev"),
     Tr("GT_ASG", Tr("GT_OBJ", Leaf("GT_LCL_VAR"), Nil, ""), Leaf("GT_LCL_VAR"), ""),
     Tr("GT_PHI", Tr("GT_LIST", Leaf("GT_PHI_ARG"), Tr("GT_LIST", Leaf("GT_PHI_ARG"), Nil, ""), ""), Nil, ""),
     Call1(Tr("GT_LIST", Leaf("GT_LCL_FLD"), Nil, "agg")),
     Tr("GT_INTRINSIC", Leaf("GT_LCL_VAR"), Nil, "target"),
     Tr("GT_INTRINSIC", Leaf("GT_LCL_VAR"), Cns, "user"),
     Tr("GT_INTRINSIC", Cns, Leaf("GT_CLS_VAR"), "userrev"),
     Leaf("GT_NOP"),
     Leaf("GT_LCL_FLD"),
     Call2(Tr("GT_BOX", Leaf("GT_LCL_VAR"), Nil, ""), Tr("GT_INTRINSIC", Cns, Nil, "user")),
     Tr("GT_NOP", Call1(Cns), Nil, ""),
     Tr("GT_ASG", Tr("GT_IND", Cns, Nil, ""), Cns, ""),
     Tr("GT_ASG", Tr("GT_IND", Leaf("GT_LCL_VAR"), Nil, ""), Leaf("GT_CLS_VAR"), "rev"),
     Tr("GT_COMMA", Tr("GT_IND", Cns, Nil, ""), Cns, ""),
     Tr("GT_COMMA", Cns, Tr("GT_IND", Leaf("GT_LCL_VAR"), Nil, ""), ""),
     Tr("GT_ADD", Tr("GT_COMMA", Cns, Leaf("GT_LCL_VAR"), ""), Cns, ""),
     Tr("GT_ASG", Cns, Cns, "")}

\* the positions a tree under test is placed in
Contexts == {"top", "arg", "arg2", "late", "commaArg", "nopArg"}

InContext(c, t) ==
    CASE c = "top" -> t
      [] c = "arg" -> Call1(t)
      [] c = "arg2" -> Call2(Cns, t)
      [] c = "late" -> CallLate(t)
      [] c = "commaArg" -> Call1(Tr("GT_COMMA", Cns, t, ""))
      [] c = "nopArg" -> Call1(Tr("GT_NOP", t, Nil, ""))

\* the statements of the multi-statement functions
SideTrees == {Tr("GT_ASG", Leaf("GT_LCL_VAR"), Cns, "rev"),
              Tr("GT_COMMA", Cns, Cns, ""),
              Tr("GT_INTRINSIC", Leaf("GT_LCL_VAR"), Nil, "user")}

\* flag and source-location variants of the input
Profiles ==
    {[asg |-> {}, loc |-> {"GTF_VAR_DEF"}, use |-> {},
      ind |-> {"GTF_EXCEPT", "GTF_IND_VOLATILE"}, il |-> 1],
     [asg |-> {"GTF_VAR_USEASG", "GTF_DONT_CSE", "GTF_IND_UNALIGNED"},
      loc |-> {"GTF_VAR_DEF", "GTF_VAR_DEATH", "GTF_VAR_USEDEF"}, use |-> {"GTF_VAR_USEDEF"},
      ind |-> {"GTF_IND_NONFAULTING"}, il |-> 0]}

\* sequences over S of length 0..n
RECURSIVE SeqsUpTo(_, _)
SeqsUpTo(S, n) ==
    IF n = 0 THEN {<<>>}
    ELSE LET shorter == SeqsUpTo(S, n - 1)
         IN  shorter \cup {Append(q, x) : q \in shorter, x \in S}

RECURSIVE SumLen(_)
SumLen(bs) == IF bs = <<>> THEN 0 ELSE Len(Head(bs)) + SumLen(Tail(bs))

\* a function: its blocks, each the sequence of its statements' trees
SingleStmtPrograms ==
    {<< <<t>> >> : t \in TreesUpTo(MaxNodes) \cup ExtraTrees}
    \cup {<< <<InContext(c, t)>> >> : c \in Contexts \ {"top"},
                                     t \in TreesUpTo(MaxNodes) \cup ExtraTrees}

MultiStmtPrograms ==
    {bs \in SeqsUpTo(SeqsUpTo(SideTrees, MaxStmts), MaxBlocks) :
        Len(bs) >= 1 /\ SumLen(bs) <= MaxStmts}

Programs == SingleStmtPrograms \cup MultiStmtPrograms

-----------------------------------------------------------------------------
(* Loading a function into the arena: nodes are allocated child-first and    *)
(* each statement's nodes are threaded in execution order (fgSetTreeSeq).    *)

Effects(ns, id) == IF id = 0 THEN {} ELSE ns[id].gtFlags \cap GTF_ALL_EFFECT

IsRev(v) == v \in {"rev", "userrev"}

\* the flags a node has of its own, before its operands' effects are added
OwnFlags(t, cx) ==
    LET o == t[1]
        base ==
            CASE o \in {"GT_LCL_VAR", "GT_LCL_FLD", "GT_REG_VAR", "GT_PHI_ARG"} ->
                     IF cx.loc THEN cx.prof.loc ELSE cx.prof.use
              [] o = "GT_CLS_VAR" -> {"GTF_GLOB_REF"}
              [] o \in {"GT_IND", "GT_BLK", "GT_OBJ"} -> cx.prof.ind
              [] o = "GT_ASG" -> {"GTF_ASG"} \cup cx.prof.asg
              [] o = "GT_CALL" -> {"GTF_CALL", "GTF_GLOB_REF"}
              [] o = "GT_LIST" -> IF t[4] = "agg" THEN {"GTF_LIST_AGGREGATE"} ELSE {}
              [] OTHER -> {}
    IN  base \cup (IF IsRev(t[4]) THEN {"GTF_REVERSE_OPS"} ELSE {})
             \cup (IF cx.late THEN {"GTF_LATE_ARG"} ELSE {})

TypeOf(o) ==
    CASE o = "GT_LCL_VAR" -> "TYP_LONG"
      [] o = "GT_LCL_FLD" -> "TYP_SHORT"
      [] o \in {"GT_ADDR"} -> "TYP_BYREF"
      [] o \in {"GT_ASG", "GT_LIST", "GT_ARGPLACE", "GT_NOP"} -> "TYP_VOID"
      [] o \in {"GT_BLK", "GT_OBJ"} -> "TYP_STRUCT"
      [] OTHER -> "TYP_INT"

\* the local-variable side data of a leaf
WithLcl(n) ==
    CASE n.oper \in {"GT_LCL_VAR", "GT_REG_VAR", "GT_PHI_ARG"} ->
             [n EXCEPT !.gtLclNum = 1, !.gtSsaNum = 3]
      [] n.oper = "GT_LCL_FLD" ->
             [n EXCEPT !.gtLclNum = 2, !.gtSsaNum = 5, !.gtLclOffs = 4, !.gtFieldSeq = 7]
      [] OTHER -> n

\* the GT_LIST nodes of an argument list, outermost first
RECURSIVE ListChain(_, _)
ListChain(ns, l) == IF l = 0 THEN <<>> ELSE <<l>> \o ListChain(ns, ns[l].gtOp2)

\* fgMorphArgs' table: one entry per argument, late ones through gtCallLateArgs
ArgTable(ns, args, late) ==
    LET a == ListChain(ns, args)
        l == ListChain(ns, late)
        early == SelectSeq(a, LAMBDA x : ns[ns[x].gtOp1].oper # "GT_ARGPLACE")
    IN  [i \in 1..Len(early) |-> [node |-> ns[early[i]].gtOp1, parent |-> early[i], late |-> FALSE]]
        \o [i \in 1..Len(l) |-> [node |-> ns[l[i]].gtOp1, parent |-> l[i], late |-> TRUE]]

\* the context of a node's first and second operand
SubCx1(o, cx) ==
    [cx EXCEPT !.loc = (o = "GT_ASG"), !.late = (o = "GT_LIST" /\ cx.inLate),
               !.inLate = FALSE]

SubCx2(o, cx) ==
    [cx EXCEPT !.loc = FALSE, !.late = FALSE,
               !.inLate = IF o = "GT_CALL" THEN TRUE
                          ELSE IF o = "GT_LIST" THEN cx.inLate ELSE FALSE]

\* Emit(t, st, cx): allocate the nodes of tree t into st.ns, append them to the
\* execution order st.ord, and return the root
RECURSIVE Emit(_, _, _)
EmitChild(c, st, cx) ==
    IF c = Nil THEN [ns |-> st.ns, ord |-> st.ord, root |-> 0] ELSE Emit(c, st, cx)

\* the node itself, after its operands c1 and c2
EmitNode(t, cx, c1, c2, st) ==
    LET o     == t[1]
        id    == Len(st.ns) + 1
        flags == OwnFlags(t, cx) \cup Effects(st.ns, c1) \cup Effects(st.ns, c2)
        n0    == [WithLcl(NewNode(o, TypeOf(o), flags, c1, c2)) EXCEPT
                     !.userCall = (o = "GT_INTRINSIC" /\ t[4] \in {"user", "userrev"}),
                     !.argTab = IF o = "GT_CALL" THEN ArgTable(st.ns, c1, c2) ELSE <<>>]
    IN  [ns |-> Append(st.ns, n0), ord |-> Append(st.ord, id), root |-> id]

\* rA: the operand that executes first, rB: the one that executes second
EmitJoin(t, cx, rA, rB) ==
    IF IsRev(t[4]) THEN EmitNode(t, cx, rB.root, rA.root, rB)
    ELSE EmitNode(t, cx, rA.root, rB.root, rB)

EmitSecond(t, cx, rA) ==
    EmitJoin(t, cx, rA,
             IF IsRev(t[4]) THEN EmitChild(t[2], rA, SubCx1(t[1], cx))
             ELSE EmitChild(t[3], rA, SubCx2(t[1], cx)))

Emit(t, st, cx) ==
    EmitSecond(t, cx,
               IF IsRev(t[4]) THEN EmitChild(t[3], st, SubCx2(t[1], cx))
               ELSE EmitChild(t[2], st, SubCx1(t[1], cx)))

PosIn(ord, id) == CHOOSE k \in 1..Len(ord) : ord[k] = id

\* link the nodes of ord into one chain and record the statement they belong to
Thread(ns, ord, stmt) ==
    [i \in 1..Len(ns) |->
        IF \E k \in 1..Len(ord) : ord[k] = i
        THEN [ns[i] EXCEPT !.gtPrev = IF PosIn(ord, i) = 1 THEN 0 ELSE ord[PosIn(ord, i) - 1],
                           !.gtNext = IF PosIn(ord, i) = Len(ord) THEN 0
                                      ELSE ord[PosIn(ord, i) + 1],
                           !.home = stmt]
        ELSE ns[i]]

\* one GT_STMT over the emitted tree e: gtStmtExpr is its gtOp1, gtStmtList
\* its first node
StmtOver(e, prof) ==
    [ns |-> Thread(Append(e.ns, [NewNode("GT_STMT", "TYP_VOID", {}, e.root, 0) EXCEPT
                                     !.gtStmtList = e.ord[1], !.gtStmtILoffsx = prof.il,
                                     !.home = Len(e.ns) + 1]),
                   e.ord, Len(e.ns) + 1),
     sid |-> Len(e.ns) + 1]

AddStmt(ns, t, prof) ==
    StmtOver(Emit(t, [ns |-> ns, ord |-> <<>>],
                  [loc |-> FALSE, late |-> FALSE, inLate |-> FALSE, prof |-> prof]),
             prof)

RECURSIVE AddStmts(_, _, _, _)
AddStmtsFrom(r, ts, prof, ids) == AddStmts(r.ns, Tail(ts), prof, Append(ids, r.sid))

AddStmts(ns, ts, prof, ids) ==
    IF ts = <<>> THEN [ns |-> ns, ids |-> ids]
    ELSE AddStmtsFrom(AddStmt(ns, Head(ts), prof), ts, prof, ids)

\* statements of a block are chained through gtNext
LinkStmts(ns, ids) ==
    [i \in 1..Len(ns) |->
        IF \E k \in 1..(Len(ids) - 1) : ids[k] = i
        THEN [ns[i] EXCEPT !.gtNext = ids[PosIn(ids, i) + 1]]
        ELSE ns[i]]

NewBlock(first) == [bbTreeList |-> first, firstNode |-> 0, lastNode |-> 0, isLIR |-> FALSE]

RECURSIVE AddBlocks(_, _, _, _)
AddBlocksFrom(r, bs, prof, acc) ==
    AddBlocks(LinkStmts(r.ns, r.ids), Tail(bs), prof,
              Append(acc, NewBlock(IF r.ids = <<>> THEN 0 ELSE r.ids[1])))

AddBlocks(ns, bs, prof, acc) ==
    IF bs = <<>> THEN [ns |-> ns, blocks |-> acc]
    ELSE AddBlocksFrom(AddStmts(ns, Head(bs), prof, <<>>), bs, prof, acc)

Load(p, prof) == AddBlocks(<<>>, p, prof, <<>>)

-----------------------------------------------------------------------------
(* The linear range of the current block (LIR::Range).  A heap value h is    *)
(* [ns, first, last, ref, fatal]: the arena, the block's first and last      *)
(* node, the local reference counts, and whether a fatal check has fired.    *)

IsAggregate(n) == "GTF_LIST_AGGREGATE" \in n.gtFlags

IsScaffoldList(n) == n.oper = "GT_LIST" /\ ~IsAggregate(n)

Arity(o) == IF o \in LeafOpers \/ o = "GT_STMT" THEN 0
            ELSE IF o \in UnaryOpers THEN 1 ELSE 2

Get(ns, id, fld) == IF fld = "gtOp1" THEN ns[id].gtOp1 ELSE ns[id].gtOp2

Put(ns, id, fld, v) == IF fld = "gtOp1" THEN [ns EXCEPT ![id].gtOp1 = v]
                       ELSE [ns EXCEPT ![id].gtOp2 = v]

\* the operand slots of a node in execution order, null operands left out
ChildFlds(ns, id) ==
    LET n   == ns[id]
        all == IF Arity(n.oper) = 0 THEN <<>>
               ELSE IF Arity(n.oper) = 1 THEN <<"gtOp1">>
               ELSE IF "GTF_REVERSE_OPS" \in n.gtFlags THEN <<"gtOp2", "gtOp1">>
               ELSE <<"gtOp1", "gtOp2">>
    IN  SelectSeq(all, LAMBDA f : Get(ns, id, f) # 0)

\* the elements of a list chain that produce a value
RECURSIVE Flatten(_, _)
Flatten(ns, l) ==
    IF l = 0 THEN <<>>
    ELSE (IF ns[ns[l].gtOp1].oper = "GT_ARGPLACE" THEN <<>> ELSE <<ns[l].gtOp1>>)
         \o Flatten(ns, ns[l].gtOp2)

\* GenTree::Operands: the nodes whose values a node consumes; argument lists
\* and placeholders are plumbing, not operands
RECURSIVE OperandsVia(_, _, _)
OperandsVia(ns, id, flds) ==
    IF flds = <<>> THEN <<>>
    ELSE LET c == Get(ns, id, Head(flds))
             here == IF ns[id].oper = "GT_LIST" /\ Head(flds) = "gtOp2" THEN Flatten(ns, c)
                     ELSE IF IsScaffoldList(ns[c]) THEN Flatten(ns, c)
                     ELSE IF ns[c].oper = "GT_ARGPLACE" THEN <<>>
                     ELSE <<c>>
         IN  here \o OperandsVia(ns, id, Tail(flds))

Operands(ns, id) == OperandsVia(ns, id, ChildFlds(ns, id))

SeqToSet(q) == {q[i] : i \in 1..Len(q)}

\* LIR::Range::Remove(node)
Remove(h, n) ==
    LET p   == h.ns[n].gtPrev
        x   == h.ns[n].gtNext
        ns1 == [h.ns EXCEPT ![n].gtPrev = 0, ![n].gtNext = 0]
        ns2 == IF p # 0 THEN [ns1 EXCEPT ![p].gtNext = x] ELSE ns1
        ns3 == IF x # 0 THEN [ns2 EXCEPT ![x].gtPrev = p] ELSE ns2
    IN  [h EXCEPT !.ns = ns3,
                  !.first = IF p = 0 THEN x ELSE h.first,
                  !.last = IF x = 0 THEN p ELSE h.last,
                  !.fatal = h.fatal \/ (p = 0 /\ h.first # n) \/ (x = 0 /\ h.last # n)]

\* LIR::Range::InsertBefore(insertionPoint, node)
InsertBefore(h, at, n) ==
    LET p   == h.ns[at].gtPrev
        ns1 == [h.ns EXCEPT ![n].gtPrev = p, ![n].gtNext = at, ![at].gtPrev = n]
        ns2 == IF p # 0 THEN [ns1 EXCEPT ![p].gtNext = n] ELSE ns1
    IN  [h EXCEPT !.ns = ns2, !.first = IF p = 0 THEN n ELSE h.first]

\* LIR::Range::InsertAfter(insertionPoint, node)
InsertAfter(h, at, n) ==
    LET x   == h.ns[at].gtNext
        ns1 == [h.ns EXCEPT ![n].gtNext = x, ![n].gtPrev = at, ![at].gtNext = n]
        ns2 == IF x # 0 THEN [ns1 EXCEPT ![x].gtPrev = n] ELSE ns1
    IN  [h EXCEPT !.ns = ns2, !.last = IF x = 0 THEN n ELSE h.last]

\* LIR::Range::GetTreeRange: walk backwards from the root marking operands
\* until every marked node has been met
RECURSIVE MarkedRange(_, _, _, _)
MarkedRange(ns, cur, marked, acc) ==
    IF cur = 0 THEN [acc EXCEPT !.lost = TRUE]
    ELSE LET hit  == cur \in marked
             m2   == IF hit THEN (marked \ {cur}) \cup SeqToSet(Operands(ns, cur)) ELSE marked
             acc2 == [acc EXCEPT !.range = <<cur>> \o acc.range,
                                 !.isClosed = acc.isClosed /\ hit,
                                 !.sideEffects = acc.sideEffects \cup (ns[cur].gtFlags \cap GTF_ALL_EFFECT)]
         IN  IF m2 = {} THEN acc2 ELSE MarkedRange(ns, ns[cur].gtPrev, m2, acc2)

GetTreeRange(h, root) ==
    MarkedRange(h.ns, root, {root},
                [range |-> <<>>, isClosed |-> TRUE, sideEffects |-> {}, lost |-> FALSE])

\* Compiler::lvaDecRefCnts
lvaDecRefCnts(h, n) ==
    LET l == h.ns[n].gtLclNum
    IN  IF l \in DOMAIN h.ref /\ h.ref[l] > 0 THEN [h EXCEPT !.ref[l] = h.ref[l] - 1] ELSE h

RECURSIVE DecRefsOf(_, _)
DecRefsOf(h, q) ==
    IF q = <<>> THEN h
    ELSE DecRefsOf(IF OperIsLocal(h.ns[Head(q)].oper) THEN lvaDecRefCnts(h, Head(q)) ELSE h, Tail(q))

\* LIR::Range::Delete(compiler, block, range)
Delete(h, range) ==
    LET a   == range[1]
        z   == range[Len(range)]
        p   == h.ns[a].gtPrev
        x   == h.ns[z].gtNext
        ns1 == [h.ns EXCEPT ![a].gtPrev = 0, ![z].gtNext = 0]
        ns2 == IF p # 0 THEN [ns1 EXCEPT ![p].gtNext = x] ELSE ns1
        ns3 == IF x # 0 THEN [ns2 EXCEPT ![x].gtPrev = p] ELSE ns2
        h1  == DecRefsOf(h, range)
    IN  [h1 EXCEPT !.ns = ns3,
                   !.first = IF p = 0 THEN x ELSE h.first,
                   !.last = IF x = 0 THEN p ELSE h.last]

-----------------------------------------------------------------------------
(* Compiler::fgWalkTreePost with computeStack: a frame is one activation of  *)
(* the recursion: the node, the slot it was reached through, the operand     *)
(* slots still to walk, and whether the visitor is called for it.            *)

\* argument-list nodes of a call are walked through but not visited
Visited(ns, id, fr) ==
    ~(/\ IsScaffoldList(ns[id])
      /\ fr # <<>>
      /\ \/ ns[fr[1].tree].oper = "GT_CALL"
         \/ (ns[fr[1].tree].oper = "GT_LIST" /\ ~fr[1].cb))

RECURSIVE Descend(_, _, _, _, _)
Descend(ns, owner, fld, fr, ps) ==
    LET id  == Get(ns, owner, fld)
        cs  == ChildFlds(ns, id)
        fr1 == <<[tree |-> id, owner |-> owner, fld |-> fld,
                  rest |-> IF cs = <<>> THEN <<>> ELSE Tail(cs),
                  cb |-> Visited(ns, id, fr)]>> \o fr
        ps1 == <<id>> \o ps
    IN  IF cs = <<>> THEN [frames |-> fr1, ps |-> ps1]
        ELSE Descend(ns, id, cs[1], fr1, ps1)

\* return from the innermost activation and run on to the next visitor call
RECURSIVE Advance(_, _, _)
Advance(ns, fr, ps) ==
    LET fr1 == Tail(fr)
        ps1 == Tail(ps)
    IN  IF fr1 = <<>> THEN [frames |-> <<>>, ps |-> <<>>]
        ELSE LET par == fr1[1]
             IN  IF par.rest # <<>>
                 THEN IF Get(ns, par.tree, par.rest[1]) = 0
                      THEN Advance(ns, <<par, [par EXCEPT !.rest = Tail(par.rest)]>> \o Tail(fr1),
                                   <<0>> \o ps1)
                      ELSE Descend(ns, par.tree, par.rest[1],
                                   <<[par EXCEPT !.rest = Tail(par.rest)]>> \o Tail(fr1), ps1)
                 ELSE IF par.cb THEN [frames |-> fr1, ps |-> ps1]
                 ELSE Advance(ns, fr1, ps1)

\* Compiler::fgGetFirstNode
RECURSIVE fgGetFirstNode(_, _)
fgGetFirstNode(ns, id) ==
    LET cs == ChildFlds(ns, id)
    IN  IF cs = <<>> THEN id ELSE fgGetFirstNode(ns, Get(ns, id, cs[1]))

\* the nodes of a subtree in execution order
RECURSIVE TreeSeq(_, _)
TreeSeq(ns, id) ==
    LET cs == ChildFlds(ns, id)
    IN  (IF Len(cs) >= 1 THEN TreeSeq(ns, Get(ns, id, cs[1])) ELSE <<>>)
        \o (IF Len(cs) >= 2 THEN TreeSeq(ns, Get(ns, id, cs[2])) ELSE <<>>)
        \o <<id>>

-----------------------------------------------------------------------------
(* Call-argument fixup *)

\* isNodeCallArg: given the stack of parent nodes (ps[1] is the current node),
\* the call the current node is an argument of, or 0
RECURSIVE isNodeCallArgFrom(_, _, _)
isNodeCallArgFrom(ns, ps, i) ==
    IF i > Len(ps) THEN 0
    ELSE LET node == ps[i]
             o    == ns[node].oper
         IN  CASE o \in {"GT_LIST", "GT_ARGPLACE"} -> isNodeCallArgFrom(ns, ps, i + 1)
               [] o = "GT_NOP" ->
                      IF ns[node].gtOp1 # 0 /\ ns[ns[node].gtOp1].oper = "GT_CALL"
                      THEN ns[node].gtOp1
                      ELSE isNodeCallArgFrom(ns, ps, i + 1)
               [] o = "GT_CALL" -> node
               [] OTHER -> 0

isNodeCallArg(ns, ps) == isNodeCallArgFrom(ns, ps, 2)

\* Compiler::gtArgEntryByNode: the index of the entry recording node, or 0
gtArgEntryByNode(ns, call, node) ==
    LET tab == ns[call].argTab
    IN  IF \E i \in 1..Len(tab) : tab[i].node = node
        THEN CHOOSE i \in 1..Len(tab) : tab[i].node = node
        ELSE 0

\* a faulty fgFixupArgTabEntryPtr: the table entry keeps the old argument
fgFixupArgTabEntryPtr_NoUpdate(h, parentCall, oldArg, newArg) ==
    IF "GTF_LATE_ARG" \in h.ns[oldArg].gtFlags
    THEN [h EXCEPT !.ns[newArg].gtFlags = @ \cup {"GTF_LATE_ARG"}]
    ELSE h

\* a faulty fgFixupArgTabEntryPtr: the new argument is marked late in both
\* cases
fgFixupArgTabEntryPtr_MarksNew(h, parentCall, oldArg, newArg) ==
    IF "GTF_LATE_ARG" \in h.ns[oldArg].gtFlags
    THEN [h EXCEPT !.ns[newArg].gtFlags = @ \cup {"GTF_LATE_ARG"}]
    ELSE IF gtArgEntryByNode(h.ns, parentCall, oldArg) = 0 THEN [h EXCEPT !.fatal = TRUE]
    ELSE [h EXCEPT !.ns[parentCall].argTab[gtArgEntryByNode(h.ns, parentCall, oldArg)].node =
                       newArg,
                   !.ns[newArg].gtFlags = @ \cup {"GTF_LATE_ARG"}]

\* Compiler::fgFixupArgTabEntryPtr
fgFixupArgTabEntryPtr(h, parentCall, oldArg, newArg) ==
    IF "GTF_LATE_ARG" \in h.ns[oldArg].gtFlags
    THEN [h EXCEPT !.ns[newArg].gtFlags = @ \cup {"GTF_LATE_ARG"}]
    ELSE LET fp == gtArgEntryByNode(h.ns, parentCall, oldArg)
         IN  IF fp = 0 THEN [h EXCEPT !.fatal = TRUE]
             ELSE [h EXCEPT !.ns[parentCall].argTab[fp].node = newArg]

\* Compiler::fgFixupIfCallArg
fgFixupIfCallArg(h, ps, oldChild, newChild) ==
    LET parentCall == isNodeCallArg(h.ns, ps)
    IN  IF parentCall = 0 THEN h
        ELSE fgFixupArgTabEntryPtr(h, parentCall, oldChild, newChild)

-----------------------------------------------------------------------------
(* LIR::Use.  A use u is [owner, fld, user, dummy, def, ps]: the slot, the   *)
(* consumer, whether it is the dummy use of a statement root, the node it    *)
(* currently refers to, and the ancestor stack it was made under.            *)

MakeUse(ns, fr, ps) ==
    IF Len(ps) < 2
    THEN [owner |-> 0, fld |-> "", user |-> fr[1].tree, dummy |-> TRUE,
          def |-> Get(ns, fr[1].owner, fr[1].fld), ps |-> ps]
    ELSE [owner |-> fr[1].owner, fld |-> fr[1].fld, user |-> ps[2], dummy |-> FALSE,
          def |-> Get(ns, fr[1].owner, fr[1].fld), ps |-> ps]

\* LIR::Use::ReplaceWith: write the slot, then fix the owning call's table.
\* The replacement already lies at the replaced node's place in linear order
\* at every call site, so no link changes here.
ReplaceWith(h, u, newNode) ==
    LET h1 == IF u.dummy THEN h ELSE [h EXCEPT !.ns = Put(h.ns, u.owner, u.fld, newNode)]
    IN  fgFixupIfCallArg(h1, u.ps, u.def, newNode)

-----------------------------------------------------------------------------
(* The rewrite rules.  Each takes the heap and the use of the current node   *)
(* and returns the heap after the rule.                                      *)

Alloc(h, n) == [h EXCEPT !.ns = Append(h.ns, n)]

\* a faulty local-store rule: the SSA number is not carried over
RewriteAssignmentIntoStoreLclCore_NoSsa(h, assignment, location, value, locationOp) ==
    IF storeForm(locationOp) = FATAL THEN [h EXCEPT !.fatal = TRUE]
    ELSE [h EXCEPT !.ns[assignment] =
             [@ EXCEPT !.oper = storeForm(locationOp),
                       !.gtLclNum = h.ns[location].gtLclNum,
                       !.gtLclOffs = IF locationOp = "GT_LCL_FLD" THEN h.ns[location].gtLclOffs
                                     ELSE @,
                       !.gtFieldSeq = IF locationOp = "GT_LCL_FLD" THEN h.ns[location].gtFieldSeq
                                      ELSE @,
                       !.gtFlags = copyFlags(@, h.ns[location].gtFlags, GTF_LIVENESS_MASK)
                                   \ {"GTF_REVERSE_OPS"},
                       !.gtType = h.ns[location].gtType,
                       !.gtOp1 = value]]

\* RewriteAssignmentIntoStoreLclCore
RewriteAssignmentIntoStoreLclCore(h, assignment, location, value, locationOp) ==
    LET storeOp == storeForm(locationOp)
        var     == h.ns[location]
        a0      == h.ns[assignment]
        a1      == [a0 EXCEPT !.oper = storeOp, !.gtLclNum = var.gtLclNum,
                              !.gtSsaNum = var.gtSsaNum]
        a2      == IF locationOp = "GT_LCL_FLD"
                   THEN [a1 EXCEPT !.gtLclOffs = var.gtLclOffs, !.gtFieldSeq = var.gtFieldSeq]
                   ELSE a1
        a3      == [a2 EXCEPT !.gtFlags = copyFlags(a0.gtFlags, var.gtFlags, GTF_LIVENESS_MASK)
                                          \ {"GTF_REVERSE_OPS"},
                              !.gtType = var.gtType,
                              !.gtOp1 = value]
    IN  IF storeOp = FATAL THEN [h EXCEPT !.fatal = TRUE]
        ELSE [h EXCEPT !.ns[assignment] = a3]

\* a faulty store for *p = v: the flags of the dereference are not copied
NewStoreInd_NoIndFlags(h, assignment, location, value) ==
    [NewNode("GT_STOREIND", h.ns[location].gtType,
             copyFlags(Effects(h.ns, h.ns[location].gtOp1) \cup Effects(h.ns, value),
                       h.ns[assignment].gtFlags, GTF_ALL_EFFECT)
                 \cup (h.ns[assignment].gtFlags \cap {"GTF_REVERSE_OPS"}),
             h.ns[location].gtOp1, value)
        EXCEPT !.home = h.ns[assignment].home]

\* the GenTreeStoreInd allocated for *p = v
NewStoreInd(h, assignment, location, value) ==
    LET asg   == h.ns[assignment]
        loc   == h.ns[location]
        ctor  == Effects(h.ns, loc.gtOp1) \cup Effects(h.ns, value)
        f1    == copyFlags(ctor, asg.gtFlags, GTF_ALL_EFFECT)
        f2    == copyFlags(f1, loc.gtFlags, GTF_IND_FLAGS)
        f3    == IF "GTF_REVERSE_OPS" \in asg.gtFlags THEN f2 \cup {"GTF_REVERSE_OPS"} ELSE f2
    IN  [NewNode("GT_STOREIND", loc.gtType, f3, loc.gtOp1, value) EXCEPT !.home = asg.home]

\* a faulty indirect-store rule: the dereference stays in the linear order
RewriteAssignmentInd_KeepInd(h, u, assignment, location, value) ==
    Remove(ReplaceWith(InsertBefore(Alloc(h, NewStoreInd(h, assignment, location, value)),
                                    assignment, Len(h.ns) + 1),
                       u, Len(h.ns) + 1),
           assignment)

\* RewriteAssignment, case GT_IND
RewriteAssignmentInd(h, u, assignment, location, value) ==
    LET store == Len(h.ns) + 1
        h1    == Alloc(h, NewStoreInd(h, assignment, location, value))
        h2    == Remove(h1, location)
        h3    == InsertBefore(h2, assignment, store)
        h4    == ReplaceWith(h3, u, store)
    IN  Remove(h4, assignment)

\* RewriteAssignment, case GT_CLS_VAR
RewriteAssignmentClsVar(h, assignment, location) ==
    [h EXCEPT !.ns[location].oper = "GT_CLS_VAR_ADDR",
              !.ns[location].gtType = "TYP_BYREF",
              !.ns[assignment].oper = "GT_STOREIND"]

StoreBlkOper(o) ==
    CASE o = "GT_BLK" -> "GT_STORE_BLK"
      [] o = "GT_OBJ" -> "GT_STORE_OBJ"
      [] o = "GT_DYN_BLK" -> "GT_STORE_DYN_BLK"

\* RewriteAssignment, cases GT_BLK, GT_OBJ, GT_DYN_BLK
RewriteAssignmentBlk(h, u, assignment, location, value) ==
    LET loc == h.ns[location]
        h1  == [h EXCEPT !.ns[location].oper = StoreBlkOper(loc.oper),
                         !.ns[location].gtFlags =
                             (loc.gtFlags \ {"GTF_DONT_CSE"})
                             \cup (h.ns[assignment].gtFlags \cap GTF_BLK_ASG_FLAGS),
                         !.ns[location].gtOp2 = value]
        h2  == ReplaceWith(h1, u, location)
    IN  Remove(h2, assignment)

\* a removal that follows a step that may have failed
RemoveUnlessFatal(h, n) == IF h.fatal THEN h ELSE Remove(h, n)

\* Rationalizer::RewriteAssignment
RewriteAssignment(h, u) ==
    LET assignment == u.def
        location   == h.ns[assignment].gtOp1
        value      == h.ns[assignment].gtOp2
        locationOp == h.ns[location].oper
    IN  CASE locationOp \in {"GT_LCL_VAR", "GT_LCL_FLD", "GT_REG_VAR", "GT_PHI_ARG"} ->
                 RemoveUnlessFatal(
                     RewriteAssignmentIntoStoreLclCore(h, assignment, location, value, locationOp),
                     location)
          [] locationOp = "GT_IND" -> RewriteAssignmentInd(h, u, assignment, location, value)
          [] locationOp = "GT_CLS_VAR" -> RewriteAssignmentClsVar(h, assignment, location)
          [] locationOp \in {"GT_BLK", "GT_OBJ", "GT_DYN_BLK"} ->
                 RewriteAssignmentBlk(h, u, assignment, location, value)
          [] OTHER -> [h EXCEPT !.fatal = TRUE]

\* Rationalizer::RewriteAddress
RewriteAddress(h, u) ==
    LET address    == u.def
        location   == h.ns[address].gtOp1
        locationOp == h.ns[location].oper
        asAddr(op) == [h EXCEPT !.ns[location].oper = op,
                                !.ns[location].gtType = "TYP_BYREF",
                                !.ns[location].gtFlags =
                                    copyFlags(h.ns[location].gtFlags, h.ns[address].gtFlags,
                                              GTF_ALL_EFFECT)]
    IN  IF OperIsLocal(locationOp)
        THEN IF addrForm(locationOp) = FATAL THEN [h EXCEPT !.fatal = TRUE]
             ELSE Remove(ReplaceWith(asAddr(addrForm(locationOp)), u, location), address)
        ELSE IF locationOp = "GT_CLS_VAR"
        THEN Remove(ReplaceWith(asAddr("GT_CLS_VAR_ADDR"), u, location), address)
        ELSE IF OperIsIndir(locationOp)
        THEN Remove(Remove(ReplaceWith(h, u, h.ns[location].gtOp1), location), address)
        ELSE h

\* RewriteNode, cases GT_BOX and GT_NOP
RewritePassThrough(h, u) ==
    LET node == u.def
    IN  IF h.ns[node].oper = "GT_NOP" /\ h.ns[node].gtOp1 = 0 THEN h
        ELSE Remove(ReplaceWith(h, u, h.ns[node].gtOp1), node)

\* delete the range r of an operand that has no side effects
DeleteRange(h, r) ==
    IF r.lost \/ ~r.isClosed \/ r.sideEffects # {} THEN [h EXCEPT !.fatal = TRUE]
    ELSE Delete(h, r.range)

DeleteOperand(h, op) == DeleteRange(h, GetTreeRange(h, op))

\* a faulty comma rule: a first operand without side effects is kept
CommaOp1_Keep(h, u) == h

\* RewriteNode, case GT_COMMA: the first operand
CommaOp1(h, u) ==
    IF Effects(h.ns, h.ns[u.def].gtOp1) = {} THEN DeleteOperand(h, h.ns[u.def].gtOp1) ELSE h

\* RewriteNode, case GT_COMMA: the second operand replaces the comma
CommaOp2(h, u) ==
    LET replacement == h.ns[u.def].gtOp2
    IN  IF h.fatal THEN h
        ELSE IF ~u.dummy THEN ReplaceWith(h, u, replacement)
        ELSE IF Effects(h.ns, replacement) = {} THEN DeleteOperand(h, replacement)
        ELSE h

\* RewriteNode, case GT_COMMA
RewriteComma(h, u) == RemoveUnlessFatal(CommaOp2(CommaOp1(h, u), u), u.def)

\* RewriteNode, case GT_CLS_VAR (_TARGET_XARCH_)
RewriteClsVar(h, u) ==
    LET node  == u.def
        isLHS == h.ns[u.user].oper = "GT_ASG" /\ h.ns[u.user].gtOp1 = node
        ind   == Len(h.ns) + 1
        h1    == Alloc(h, [NewNode("GT_IND", h.ns[node].gtType, Effects(h.ns, node), node, 0)
                               EXCEPT !.home = h.ns[node].home])
        h2    == [h1 EXCEPT !.ns[node].oper = "GT_CLS_VAR_ADDR", !.ns[node].gtType = "TYP_BYREF"]
    IN  IF isLHS THEN h ELSE ReplaceWith(InsertAfter(h2, node, ind), u, ind)

\* a faulty removal of list scaffolding: only the nearest predecessor goes
StripLists_Once(h, node) ==
    IF h.ns[node].gtPrev # 0 /\ IsScaffoldList(h.ns[h.ns[node].gtPrev])
    THEN Remove(h, h.ns[node].gtPrev)
    ELSE h

\* RewriteNode: remove the GT_LIST nodes that precede the current node
RECURSIVE StripLists(_, _)
StripLists(h, node) ==
    LET prev == h.ns[node].gtPrev
    IN  IF prev # 0 /\ IsScaffoldList(h.ns[prev]) THEN StripLists(Remove(h, prev), node)
        ELSE h

\* RewriteNode: the switch on the current node's kind
RewriteSwitch(h, u) ==
    LET o == h.ns[u.def].oper
    IN  CASE o = "GT_ASG" -> RewriteAssignment(h, u)
          [] o \in {"GT_BOX", "GT_NOP"} -> RewritePassThrough(h, u)
          [] o = "GT_ADDR" -> RewriteAddress(h, u)
          [] o = "GT_COMMA" -> RewriteComma(h, u)
          [] o = "GT_ARGPLACE" -> Remove(h, u.def)
          [] o = "GT_CLS_VAR" -> RewriteClsVar(h, u)
          [] o = "GT_INTRINSIC" -> IF h.ns[u.def].userCall THEN [h EXCEPT !.fatal = TRUE] ELSE h
          [] OTHER -> h

\* RewriteNode: drop an unused local read at the top of a statement
PruneLocalRead(h, u, node) ==
    IF ~h.fatal /\ u.dummy /\ OperIsLocalRead(h.ns[node].oper)
    THEN Remove(lvaDecRefCnts(h, node), node)
    ELSE h

\* RewriteNode after the leading GT_LIST nodes are gone
RewriteStripped(h, u) ==
    IF h.ns[u.def].oper = "GT_LIST"
    THEN (IF IsAggregate(h.ns[u.def]) THEN h ELSE Remove(h, u.def))
    ELSE PruneLocalRead(RewriteSwitch(h, u), u, u.def)

\* Rationalizer::RewriteNode
RewriteNode(h, fr, ps) ==
    RewriteStripped(StripLists(h, Get(h.ns, fr[1].owner, fr[1].fld)), MakeUse(h.ns, fr, ps))

-----------------------------------------------------------------------------
(* The intrinsic pre-pass (tree form) *)

\* link the nodes of q into a chain that starts behind prevTree
ThreadAfter(ns, q, prevTree) ==
    [i \in 1..Len(ns) |->
        IF \E k \in 1..Len(q) : q[k] = i
        THEN [ns[i] EXCEPT !.gtPrev = IF PosIn(q, i) = 1 THEN prevTree ELSE q[PosIn(q, i) - 1],
                           !.gtNext = IF PosIn(q, i) = Len(q) THEN 0 ELSE q[PosIn(q, i) + 1]]
        ELSE IF i = prevTree THEN [ns[i] EXCEPT !.gtNext = q[1]]
        ELSE ns[i]]

\* Compiler::fgSetTreeSeq(tree, prevTree): thread the subtree in execution
\* order behind prevTree
fgSetTreeSeq(ns, tree, prevTree) == ThreadAfter(ns, TreeSeq(ns, tree), prevTree)

\* gtNewListNode for an argument list
NewArgList(ns, arg, rest, home) ==
    Append(ns, [NewNode("GT_LIST", "TYP_VOID", Effects(ns, arg) \cup Effects(ns, rest), arg, rest)
                    EXCEPT !.home = home])

\* gtNewCallNode and fgMorphArgs for the list that was allocated last
NewCallOver(ns, type, home) ==
    Append(ns, [NewNode("GT_CALL", type, {"GTF_CALL", "GTF_GLOB_REF"} \cup Effects(ns, Len(ns)),
                        Len(ns), 0)
                    EXCEPT !.home = home, !.argTab = ArgTable(ns, Len(ns), 0)])

\* gtNewArgList / gtNewCallNode / fgMorphArgs: the list nodes and the call
\* that replace an intrinsic; the call is the last node allocated
NewUserCall(ns, tree) ==
    NewCallOver(IF ns[tree].gtOp2 = 0
                THEN NewArgList(ns, ns[tree].gtOp1, 0, ns[tree].home)
                ELSE NewArgList(NewArgList(ns, ns[tree].gtOp2, 0, ns[tree].home),
                                ns[tree].gtOp1, Len(ns) + 1, ns[tree].home),
                ns[tree].gtType, ns[tree].home)

\* a faulty flag propagation: the nearest ancestor is left out
PropagateCallFlags_SkipParent(ns, ps, call) ==
    [i \in 1..Len(ns) |->
        IF \E k \in 3..Len(ps) : ps[k] = i
        THEN [ns[i] EXCEPT !.gtFlags = @ \cup {"GTF_CALL"}
                                         \cup (ns[call].gtFlags \cap GTF_ALL_EFFECT)]
        ELSE ns[i]]

\* a faulty flag propagation: only GTF_CALL reaches the ancestors
PropagateCallFlags_OnlyCall(ns, ps, call) ==
    [i \in 1..Len(ns) |->
        IF \E k \in 2..Len(ps) : ps[k] = i
        THEN [ns[i] EXCEPT !.gtFlags = @ \cup {"GTF_CALL"}]
        ELSE ns[i]]

\* the loop of RewriteNodeAsCall that propagates the call's flags to its parents
PropagateCallFlags(ns, ps, call) ==
    [i \in 1..Len(ns) |->
        IF \E k \in 2..Len(ps) : ps[k] = i
        THEN [ns[i] EXCEPT !.gtFlags = @ \cup {"GTF_CALL"}
                                         \cup (ns[call].gtFlags \cap GTF_ALL_EFFECT)]
        ELSE ns[i]]

\* the end of RewriteNodeAsCall: pop "tree", push "call"
ReplaceTop(ps, call) == <<call>> \o Tail(ps)

\* RewriteNodeAsCall: restore the links of the replaced tree's neighbours
RestoreLinks(ns, call, first, treePrevNode, treeNextNode, root) ==
    [i \in 1..Len(ns) |->
        IF i = first /\ treePrevNode # 0 THEN [ns[i] EXCEPT !.gtPrev = treePrevNode]
        ELSE IF i = treePrevNode THEN [ns[i] EXCEPT !.gtNext = first]
        ELSE IF i = root /\ treePrevNode = 0 THEN [ns[i] EXCEPT !.gtStmtList = first]
        ELSE IF i = call /\ treeNextNode # 0 THEN [ns[i] EXCEPT !.gtNext = treeNextNode]
        ELSE IF i = treeNextNode THEN [ns[i] EXCEPT !.gtPrev = call]
        ELSE ns[i]]

\* RewriteNodeAsCall once the call exists: replace, re-thread, fix up
InstallCall(h, ns1, fr, ps, root, tree, treePrevNode, treeNextNode) ==
    fgFixupIfCallArg(
        [h EXCEPT !.ns = RestoreLinks(fgSetTreeSeq(Put(ns1, fr[1].owner, fr[1].fld, Len(ns1)),
                                                   Len(ns1), treePrevNode),
                                      Len(ns1), fgGetFirstNode(ns1, Len(ns1)),
                                      treePrevNode, treeNextNode, root)],
        ps, tree, Len(ns1))

\* RewriteNodeAsCall: flags to the parents, and the call on the stack
FinishCall(h, ps, call) ==
    [h |-> [h EXCEPT !.ns = PropagateCallFlags(h.ns, ps, call)],
     ps |-> ReplaceTop(ps, call)]

\* Rationalizer::RewriteNodeAsCall (through RewriteIntrinsicAsUserCall)
RewriteNodeAsCall(h, fr, ps, root) ==
    LET tree == Get(h.ns, fr[1].owner, fr[1].fld)
    IN  FinishCall(InstallCall(h, NewUserCall(h.ns, tree), fr, ps, root, tree,
                               h.ns[fgGetFirstNode(h.ns, tree)].gtPrev, h.ns[tree].gtNext),
                   ps, Len(h.ns) + (IF h.ns[tree].gtOp2 = 0 THEN 2 ELSE 3))

\* the visitor of the pre-pass walk
PrePassVisit(h, fr, ps, root) ==
    LET node == Get(h.ns, fr[1].owner, fr[1].fld)
    IN  IF h.ns[node].oper = "GT_INTRINSIC" /\ h.ns[node].userCall
        THEN RewriteNodeAsCall(h, fr, ps, root)
        ELSE IF OperIsLocal(h.ns[node].oper)
        THEN [h |-> [h EXCEPT !.ns[node].gtFlags = @ \ {"GTF_VAR_USEDEF"}], ps |-> ps]
        ELSE [h |-> h, ps |-> ps]

\* DoPhase: link a statement's nodes behind the previous statement's
ChainStatement(ns, statement, lastNodeInPreviousStatement) ==
    LET firstNodeInStatement == ns[statement].gtStmtList
        ns1 == IF lastNodeInPreviousStatement # 0
               THEN [ns EXCEPT ![lastNodeInPreviousStatement].gtNext = firstNodeInStatement]
               ELSE ns
    IN  [ns1 EXCEPT ![firstNodeInStatement].gtPrev = lastNodeInPreviousStatement]

-----------------------------------------------------------------------------
(* The state machine *)

Locals == {1, 2}

CountRefs(ns, l) == Cardinality({i \in 1..Len(ns) : OperIsLocal(ns[i].oper) /\ ns[i].gtLclNum = l})

NoEvent == [rule |-> "none"]

Init ==
    \E p \in Programs, prof \in Profiles :
        LET L == Load(p, prof)
        IN  /\ nodes = L.ns
            /\ blocks = L.blocks
            /\ lvaRefCnt = [l \in Locals |-> CountRefs(L.ns, l)]
            /\ pc = "start"
            /\ curBlock = 0
            /\ curStmt = 0
            /\ nextStmt = 0
            /\ lastPrev = 0
            /\ frames = <<>>
            /\ parentStack = <<>>
            /\ fgOrder = "FGOrderTree"
            /\ compRationalIRForm = FALSE
            /\ ev = NoEvent
            /\ formK = "none"
            /\ formLog = <<>>

formVars == <<formK, formLog>>

Heap == [ns |-> nodes,
         first |-> IF curBlock \in DOMAIN blocks THEN blocks[curBlock].firstNode ELSE 0,
         last |-> IF curBlock \in DOMAIN blocks THEN blocks[curBlock].lastNode ELSE 0,
         ref |-> lvaRefCnt, fatal |-> FALSE]

\* the node the visitor is about to be called on
CurNode == Get(nodes, frames[1].owner, frames[1].fld)

Event(rule) ==
    [rule |-> rule, node |-> CurNode, before |-> nodes, ps |-> parentStack,
     psAfter |-> parentStack, new |-> Len(nodes), dummy |-> Len(parentStack) < 2,
     owner |-> frames[1].owner, fld |-> frames[1].fld, stmt |-> curStmt]

\* DoPhase up to the block loop
StartPhase ==
    /\ pc = "start"
    /\ fgOrder' = "FGOrderLinear"
    /\ curBlock' = 1
    /\ pc' = "block"
    /\ UNCHANGED <<nodes, blocks, lvaRefCnt, curStmt, nextStmt, lastPrev, frames, parentStack,
                   compRationalIRForm, ev, formVars>>

\* DoPhase: a block without statements
SkipEmptyBlock ==
    /\ pc = "block"
    /\ curBlock <= Len(blocks)
    /\ blocks[curBlock].bbTreeList = 0
    /\ blocks' = [blocks EXCEPT ![curBlock] = [@ EXCEPT !.firstNode = 0, !.lastNode = 0,
                                                       !.isLIR = TRUE]]
    /\ curBlock' = curBlock + 1
    /\ UNCHANGED <<nodes, lvaRefCnt, pc, curStmt, nextStmt, lastPrev, frames, parentStack,
                   fgOrder, compRationalIRForm, ev, formVars>>

\* DoPhase: enter a block and start the pre-pass walk of its first statement
EnterBlock ==
    /\ pc = "block"
    /\ curBlock <= Len(blocks)
    /\ blocks[curBlock].bbTreeList # 0
    /\ LET w == Descend(nodes, blocks[curBlock].bbTreeList, "gtOp1", <<>>, <<>>)
       IN  /\ frames' = w.frames
           /\ parentStack' = w.ps
    /\ curStmt' = blocks[curBlock].bbTreeList
    /\ lastPrev' = 0
    /\ pc' = "prepass"
    /\ UNCHANGED <<nodes, blocks, lvaRefCnt, curBlock, nextStmt, fgOrder,
                   compRationalIRForm, ev, formVars>>

\* a faulty end of a pre-pass walk: the block is marked after its first
\* statement, the pre-pass of the others is left out
PrePassEndOfStmt_FirstOnly(ns, nxt) ==
    /\ nodes' = ns
    /\ lastPrev' = ns[curStmt].gtOp1
    /\ frames' = <<>>
    /\ parentStack' = <<>>
    /\ curStmt' = curStmt
    /\ pc' = "makeLIR"

\* the end of a statement's pre-pass walk: chain its nodes (ns is the arena
\* after chaining) and go on with the next statement, if any
PrePassEndOfStmt(ns, nxt) ==
    /\ nodes' = ns
    /\ lastPrev' = ns[curStmt].gtOp1
    /\ IF nxt # 0
       THEN /\ frames' = Descend(ns, nxt, "gtOp1", <<>>, <<>>).frames
            /\ parentStack' = Descend(ns, nxt, "gtOp1", <<>>, <<>>).ps
            /\ curStmt' = nxt
            /\ pc' = "prepass"
       ELSE /\ frames' = <<>>
            /\ parentStack' = <<>>
            /\ curStmt' = curStmt
            /\ pc' = "makeLIR"

\* the walk's move to the next visitor call (adv) after a visitor call
\* returned r
PrePassMove(r, adv) ==
    IF adv.frames # <<>>
    THEN /\ nodes' = r.h.ns
         /\ frames' = adv.frames
         /\ parentStack' = adv.ps
         /\ UNCHANGED <<pc, curStmt, lastPrev>>
    ELSE PrePassEndOfStmt(ChainStatement(r.h.ns, curStmt, lastPrev), r.h.ns[curStmt].gtNext)

PrePassCommit(rule, r) ==
    /\ ev' = [Event(rule) EXCEPT !.rule = IF r.h.fatal THEN "fatal" ELSE rule,
                                 !.psAfter = r.ps, !.new = Len(r.h.ns)]
    /\ IF r.h.fatal
       THEN /\ pc' = "fatal"
            /\ UNCHANGED <<nodes, curStmt, lastPrev, frames, parentStack>>
       ELSE PrePassMove(r, Advance(r.h.ns, frames, r.ps))
    /\ UNCHANGED <<blocks, lvaRefCnt, curBlock, nextStmt, fgOrder, compRationalIRForm,
                   formVars>>

\* one visitor call of the pre-pass walk, the walk's move to the next call, and
\* at the end of the statement the chaining of its nodes
PrePassStep(rule) ==
    /\ pc = "prepass"
    /\ PrePassCommit(rule, PrePassVisit(Heap, frames, parentStack, curStmt))

\* pre-pass visitor on an intrinsic the target does not implement
PrePassIntrinsic ==
    /\ pc = "prepass"
    /\ nodes[CurNode].oper = "GT_INTRINSIC" /\ nodes[CurNode].userCall
    /\ PrePassStep("intrinsicToCall")

\* pre-pass visitor on a local
PrePassLocal ==
    /\ pc = "prepass"
    /\ OperIsLocal(nodes[CurNode].oper)
    /\ PrePassStep("clearUseDef")

\* pre-pass visitor on any other node
PrePassOther ==
    /\ pc = "prepass"
    /\ ~(nodes[CurNode].oper = "GT_INTRINSIC" /\ nodes[CurNode].userCall)
    /\ ~OperIsLocal(nodes[CurNode].oper)
    /\ PrePassStep("prepassOther")

RECURSIVE LastStmt(_, _)
LastStmt(ns, s) == IF ns[s].gtNext = 0 THEN s ELSE LastStmt(ns, ns[s].gtNext)

\* DoPhase: block->MakeLIR(firstStatement->gtStmtList, lastStatement->gtStmtExpr)
MakeLIR ==
    /\ pc = "makeLIR"
    /\ LET firstStatement == blocks[curBlock].bbTreeList
           lastStatement  == LastStmt(nodes, firstStatement)
       IN  /\ blocks' = [blocks EXCEPT ![curBlock] =
                            [@ EXCEPT !.firstNode = nodes[firstStatement].gtStmtList,
                                      !.lastNode = nodes[lastStatement].gtOp1,
                                      !.isLIR = TRUE]]
           /\ curStmt' = firstStatement
    /\ pc' = "stmt"
    /\ UNCHANGED <<nodes, lvaRefCnt, curBlock, nextStmt, lastPrev, frames, parentStack,
                   fgOrder, compRationalIRForm, ev, formVars>>

\* DoPhase: a statement with IL offset information becomes a GT_IL_OFFSET node
\* in front of its first node; then its rewrite walk starts
BeginStmtWithOffset ==
    /\ pc = "stmt"
    /\ nodes[curStmt].gtStmtILoffsx # 0
    /\ LET ns1 == [nodes EXCEPT ![curStmt].oper = "GT_IL_OFFSET",
                                ![curStmt].gtNext = 0, ![curStmt].gtPrev = 0]
           h   == InsertBefore([Heap EXCEPT !.ns = ns1], nodes[curStmt].gtStmtList, curStmt)
           w   == Descend(h.ns, curStmt, "gtOp1", <<>>, <<>>)
       IN  /\ nodes' = h.ns
           /\ blocks' = [blocks EXCEPT ![curBlock].firstNode = h.first,
                                       ![curBlock].lastNode = h.last]
           /\ frames' = w.frames
           /\ parentStack' = w.ps
    /\ nextStmt' = nodes[curStmt].gtNext
    /\ pc' = "rewrite"
    /\ UNCHANGED <<lvaRefCnt, curBlock, curStmt, lastPrev, fgOrder, compRationalIRForm, ev,
                   formVars>>

\* DoPhase: a statement without IL offset information; its rewrite walk starts
BeginStmtNoOffset ==
    /\ pc = "stmt"
    /\ nodes[curStmt].gtStmtILoffsx = 0
    /\ LET w == Descend(nodes, curStmt, "gtOp1", <<>>, <<>>)
       IN  /\ frames' = w.frames
           /\ parentStack' = w.ps
    /\ nextStmt' = nodes[curStmt].gtNext
    /\ pc' = "rewrite"
    /\ UNCHANGED <<nodes, blocks, lvaRefCnt, curBlock, curStmt, lastPrev, fgOrder,
                   compRationalIRForm, ev, formVars>>

\* the walk's move to the next call of RewriteNode (adv); after the last node
\* of a statement the next statement, after the last statement the next block
RewriteMove(adv) ==
    /\ frames' = adv.frames
    /\ parentStack' = adv.ps
    /\ IF adv.frames # <<>>
       THEN UNCHANGED <<pc, curBlock, curStmt>>
       ELSE IF nextStmt # 0
       THEN /\ pc' = "stmt"
            /\ curStmt' = nextStmt
            /\ UNCHANGED curBlock
       ELSE /\ pc' = "block"
            /\ curStmt' = 0
            /\ curBlock' = curBlock + 1

RewriteCommit(rule, h) ==
    /\ ev' = [Event(rule) EXCEPT !.rule = IF h.fatal THEN "fatal" ELSE rule,
                                 !.new = Len(h.ns)]
    /\ IF h.fatal
       THEN /\ pc' = "fatal"
            /\ UNCHANGED <<nodes, blocks, lvaRefCnt, curBlock, curStmt, frames, parentStack>>
       ELSE /\ nodes' = h.ns
            /\ blocks' = [blocks EXCEPT ![curBlock].firstNode = h.first,
                                        ![curBlock].lastNode = h.last]
            /\ lvaRefCnt' = h.ref
            /\ RewriteMove(Advance(h.ns, frames, parentStack))
    /\ UNCHANGED <<nextStmt, lastPrev, fgOrder, compRationalIRForm, formVars>>

\* one call of RewriteNode and the walk's move to the next call
RewriteStep(rule) ==
    /\ pc = "rewrite"
    /\ RewriteCommit(rule, RewriteNode(Heap, frames, parentStack))

RwAssignment == pc = "rewrite" /\ nodes[CurNode].oper = "GT_ASG" /\ RewriteStep("assignment")

RwAddress == pc = "rewrite" /\ nodes[CurNode].oper = "GT_ADDR" /\ RewriteStep("address")

RwBox == pc = "rewrite" /\ nodes[CurNode].oper = "GT_BOX" /\ RewriteStep("box")

RwNop == pc = "rewrite" /\ nodes[CurNode].oper = "GT_NOP" /\ RewriteStep("nop")

RwComma == pc = "rewrite" /\ nodes[CurNode].oper = "GT_COMMA" /\ RewriteStep("comma")

RwArgPlace == pc = "rewrite" /\ nodes[CurNode].oper = "GT_ARGPLACE" /\ RewriteStep("argplace")

RwClsVar == pc = "rewrite" /\ nodes[CurNode].oper = "GT_CLS_VAR" /\ RewriteStep("clsVar")

RwList == pc = "rewrite" /\ nodes[CurNode].oper = "GT_LIST" /\ RewriteStep("list")

RwOther ==
    /\ pc = "rewrite"
    /\ nodes[CurNode].oper \notin {"GT_ASG", "GT_ADDR", "GT_BOX", "GT_NOP", "GT_COMMA",
                                   "GT_ARGPLACE", "GT_CLS_VAR", "GT_LIST"}
    /\ RewriteStep("other")

\* a faulty end of DoPhase: the flag is set once the first block is finished
FinishPhase_AfterFirstBlock ==
    /\ pc = "block"
    /\ curBlock > 1
    /\ compRationalIRForm' = TRUE
    /\ pc' = "done"
    /\ UNCHANGED <<nodes, blocks, lvaRefCnt, curBlock, curStmt, nextStmt, lastPrev, frames,
                   parentStack, fgOrder, ev, formVars>>

\* DoPhase: after the last block
FinishPhase ==
    /\ pc = "block"
    /\ curBlock > Len(blocks)
    /\ compRationalIRForm' = TRUE
    /\ pc' = "done"
    /\ UNCHANGED <<nodes, blocks, lvaRefCnt, curBlock, curStmt, nextStmt, lastPrev, frames,
                   parentStack, fgOrder, ev, formVars>>

Next ==
    \/ StartPhase
    \/ SkipEmptyBlock
    \/ EnterBlock
    \/ PrePassIntrinsic
    \/ PrePassLocal
    \/ PrePassOther
    \/ MakeLIR
    \/ BeginStmtWithOffset
    \/ BeginStmtNoOffset
    \/ RwAssignment
    \/ RwAddress
    \/ RwBox
    \/ RwNop
    \/ RwComma
    \/ RwArgPlace
    \/ RwClsVar
    \/ RwList
    \/ RwOther
    \/ FinishPhase

Spec == Init /\ [][Next]_vars

-----------------------------------------------------------------------------
(* The form conversions applied to operator kinds: formK is the kind a chain *)
(* of conversions starts from, formLog the conversions applied so far with   *)
(* their results.  A conversion that fails ends the chain.                   *)

InitForms ==
    /\ formK \in genTreeOps
    /\ formLog = <<>>
    /\ nodes = <<>>
    /\ blocks = <<>>
    /\ lvaRefCnt = [l \in Locals |-> 0]
    /\ pc = "forms"
    /\ curBlock = 0
    /\ curStmt = 0
    /\ nextStmt = 0
    /\ lastPrev = 0
    /\ frames = <<>>
    /\ parentStack = <<>>
    /\ fgOrder = "FGOrderTree"
    /\ compRationalIRForm = FALSE
    /\ ev = NoEvent

\* the kind the next conversion is applied to
FormCur == IF formLog = <<>> THEN formK ELSE formLog[Len(formLog)].res

CanConvert == pc = "forms" /\ Len(formLog) < MaxChain /\ FormCur # FATAL

ApplyStoreForm ==
    /\ CanConvert
    /\ formLog' = Append(formLog, [fn |-> "storeForm", res |-> storeForm(FormCur)])
    /\ UNCHANGED <<progVars, formK>>

ApplyAddrForm ==
    /\ CanConvert
    /\ formLog' = Append(formLog, [fn |-> "addrForm", res |-> addrForm(FormCur)])
    /\ UNCHANGED <<progVars, formK>>

ApplyLoadForm ==
    /\ CanConvert
    /\ formLog' = Append(formLog, [fn |-> "loadForm", res |-> loadForm(FormCur)])
    /\ UNCHANGED <<progVars, formK>>

NextForms == ApplyStoreForm \/ ApplyAddrForm \/ ApplyLoadForm

SpecForms == InitForms /\ [][NextForms]_vars

-----------------------------------------------------------------------------
(* Properties *)

\* the nodes met walking gtNext from cur, at most fuel of them
RECURSIVE WalkFrom(_, _, _, _)
WalkFrom(ns, cur, acc, fuel) ==
    IF cur = 0 \/ fuel = 0 THEN acc
    ELSE WalkFrom(ns, ns[cur].gtNext, Append(acc, cur), fuel - 1)

\* the linear sequence of block b
LinearSeq(b) == WalkFrom(nodes, blocks[b].firstNode, <<>>, Len(nodes) + 1)

\* the node n is in the linear sequence of some block
InLinear(n) == \E b \in 1..Len(blocks) : \E k \in 1..Len(LinearSeq(b)) : LinearSeq(b)[k] = n

\* q, walked from block b's first node, is a valid linear sequence
SeqLinearOK(q, b) ==
    /\ \A i, j \in 1..Len(q) : i # j => q[i] # q[j]
    /\ q = <<>> => blocks[b].firstNode = 0 /\ blocks[b].lastNode = 0
    /\ q # <<>> => /\ q[Len(q)] = blocks[b].lastNode
                   /\ nodes[q[1]].gtPrev = 0
    /\ \A k \in 2..Len(q) : nodes[q[k]].gtPrev = q[k - 1]
    /\ \A k \in 1..Len(q) :
           \A o \in SeqToSet(Operands(nodes, q[k])) : \E j \in 1..(k - 1) : q[j] = o

Precedes(x, y) ==
    \E b \in 1..Len(blocks) :
        \E i, j \in 1..Len(LinearSeq(b)) :
            i < j /\ LinearSeq(b)[i] = x /\ LinearSeq(b)[j] = y

\* the last rule applied was rule, and it did not fail
Applied(rule) == ev.rule = rule

\* the slot of the node the last rule was applied to, when it has a consumer
UseSlot == Get(nodes, ev.owner, ev.fld)

\* C2: in every state the rewriting reaches without failing, each entry of a
\* call's argument table that is not a late argument records the node that
\* the argument's list slot currently holds.
C2_ArgTableConsistent ==
    pc # "fatal" =>
        \A c \in 1..Len(nodes) :
            nodes[c].oper = "GT_CALL" =>
                \A i \in 1..Len(nodes[c].argTab) :
                    ~nodes[c].argTab[i].late =>
                        nodes[nodes[c].argTab[i].parent].gtOp1 = nodes[c].argTab[i].node

\* a rule replaced the second argument of a call, reached through two list
\* nodes, and the call's table entry follows
C2_Witness ==
    /\ pc # "fatal"
    /\ ev.rule \in {"box", "nop", "address", "comma", "clsVar", "assignment", "intrinsicToCall"}
    /\ \E c \in 1..Len(ev.before) :
           /\ ev.before[c].oper = "GT_CALL"
           /\ Len(ev.before[c].argTab) = 2
           /\ ~ev.before[c].argTab[2].late
           /\ nodes[c].argTab[2].node # ev.before[c].argTab[2].node
           /\ nodes[nodes[c].argTab[2].parent].gtOp1 = nodes[c].argTab[2].node

\* the assignment the last rule rewrote, with its location and value
AsgLocation == ev.before[ev.node].gtOp1

AsgValue == ev.before[ev.node].gtOp2

LocalAssignment ==
    Applied("assignment") /\ ev.before[AsgLocation].oper \in {"GT_LCL_VAR", "GT_LCL_FLD"}

\* C3: after an assignment to a local variable or local field is rewritten,
\* the store's liveness flags are the location's, its reverse-order flag is
\* clear, and its other flags are the assignment's.
C3_StoreLclFlags ==
    LocalAssignment =>
        /\ nodes[ev.node].gtFlags \cap GTF_LIVENESS_MASK
               = ev.before[AsgLocation].gtFlags \cap GTF_LIVENESS_MASK
        /\ "GTF_REVERSE_OPS" \notin nodes[ev.node].gtFlags
        /\ nodes[ev.node].gtFlags \ (GTF_LIVENESS_MASK \cup {"GTF_REVERSE_OPS"})
               = ev.before[ev.node].gtFlags \ (GTF_LIVENESS_MASK \cup {"GTF_REVERSE_OPS"})

\* an assignment that had a liveness flag of its own and the reverse-order
\* flag became a store with the location's liveness flags
C3_Witness ==
    /\ LocalAssignment
    /\ "GTF_VAR_USEASG" \in ev.before[ev.node].gtFlags
    /\ "GTF_REVERSE_OPS" \in ev.before[ev.node].gtFlags
    /\ "GTF_VAR_DEATH" \in nodes[ev.node].gtFlags
    /\ "GTF_VAR_USEASG" \notin nodes[ev.node].gtFlags

\* the comma the last rule rewrote had a left operand without side effects
FreeLeftComma ==
    Applied("comma") /\ Effects(ev.before, ev.before[ev.node].gtOp1) = {}

CommaReplacement == ev.before[ev.node].gtOp2

\* C4 as stated: when a comma whose left operand has no side-effect flags is
\* rewritten, the side-effect flags of its right operand, which replaces it,
\* equal the side-effect flags of the comma.
C4_CommaFlagsEqual ==
    FreeLeftComma => Effects(nodes, CommaReplacement) = Effects(ev.before, ev.node)

\* C4 amended: the right operand replaces the comma in the consumer's slot,
\* and its side-effect flags are among the comma's.
C4_CommaFlagsContained ==
    FreeLeftComma =>
        /\ Effects(nodes, CommaReplacement) \subseteq Effects(ev.before, ev.node)
        /\ ~ev.dummy => UseSlot = CommaReplacement

\* a comma was replaced by a right operand with fewer side-effect flags
C4_Witness ==
    /\ FreeLeftComma
    /\ ~ev.dummy
    /\ UseSlot = CommaReplacement
    /\ Effects(nodes, CommaReplacement) # Effects(ev.before, ev.node)

\* s is a statement whose expression is a comma with two operands free of
\* side-effect flags
IsFreeCommaStmt(s) ==
    /\ nodes[s].oper \in {"GT_STMT", "GT_IL_OFFSET"}
    /\ nodes[nodes[s].gtOp1].oper = "GT_COMMA"
    /\ Effects(nodes, nodes[nodes[s].gtOp1].gtOp1) = {}
    /\ Effects(nodes, nodes[nodes[s].gtOp1].gtOp2) = {}

\* the nodes statement s has in the linear sequences
NodesOf(s) == {n \in 1..Len(nodes) : nodes[n].home = s /\ InLinear(n)}

\* C5 as stated: after the phase a statement whose expression is a comma of
\* two side-effect-free operands has no node in the linear sequence, whether
\* or not it has a valid IL offset.
C5_CommaStmtNoNodes ==
    pc = "done" => \A s \in 1..Len(nodes) : IsFreeCommaStmt(s) => NodesOf(s) = {}

\* C5 amended: such a statement has no node in the linear sequence when it
\* has no valid IL offset, and only its GT_IL_OFFSET node when it has one.
C5_CommaStmtOnlyOffset ==
    pc = "done" =>
        \A s \in 1..Len(nodes) :
            IsFreeCommaStmt(s) =>
                NodesOf(s) = IF nodes[s].gtStmtILoffsx = 0 THEN {} ELSE {s}

\* a comma statement with a valid IL offset left exactly its GT_IL_OFFSET node
C5_Witness ==
    /\ pc = "done"
    /\ \E s \in 1..Len(nodes) :
           /\ IsFreeCommaStmt(s)
           /\ nodes[s].gtStmtILoffsx # 0
           /\ nodes[s].oper = "GT_IL_OFFSET"
           /\ NodesOf(s) = {s}

IndAssignment == Applied("assignment") /\ ev.before[AsgLocation].oper = "GT_IND"

\* C6: after *p = v is rewritten there is one new node, a GT_STOREIND with
\* operands (p, v); it is in the linear sequence where the assignment was,
\* after p and v; the dereference and the assignment are out of the linear
\* sequence; and the consumer's slot holds the new node.
C6_StoreInd ==
    IndAssignment =>
        /\ Len(nodes) = Len(ev.before) + 1
        /\ nodes[Len(nodes)].oper = "GT_STOREIND"
        /\ nodes[Len(nodes)].gtOp1 = ev.before[AsgLocation].gtOp1
        /\ nodes[Len(nodes)].gtOp2 = AsgValue
        /\ InLinear(Len(nodes))
        /\ nodes[Len(nodes)].gtNext = ev.before[ev.node].gtNext
        /\ Precedes(ev.before[AsgLocation].gtOp1, Len(nodes))
        /\ Precedes(AsgValue, Len(nodes))
        /\ ~InLinear(AsgLocation)
        /\ ~InLinear(ev.node)
        /\ ~ev.dummy => UseSlot = Len(nodes)

\* an indirect assignment with a consumer was rewritten
C6_Witness ==
    /\ IndAssignment
    /\ ~ev.dummy
    /\ nodes[Len(nodes)].oper = "GT_STOREIND"
    /\ UseSlot = Len(nodes)
    /\ ev.before[ev.node].gtNext # 0

\* C7: after an assignment to a local variable or local field is rewritten,
\* the assignment node itself is the matching store, with the location's
\* local number, SSA number, type and (for a field) offset and field
\* sequence, and with the value as its only operand; no node was allocated
\* and the location is out of the linear sequence.
C7_StoreLcl ==
    LocalAssignment =>
        /\ Len(nodes) = Len(ev.before)
        /\ nodes[ev.node].oper = IF ev.before[AsgLocation].oper = "GT_LCL_VAR"
                                  THEN "GT_STORE_LCL_VAR" ELSE "GT_STORE_LCL_FLD"
        /\ nodes[ev.node].gtLclNum = ev.before[AsgLocation].gtLclNum
        /\ nodes[ev.node].gtSsaNum = ev.before[AsgLocation].gtSsaNum
        /\ ev.before[AsgLocation].oper = "GT_LCL_FLD" =>
               /\ nodes[ev.node].gtLclOffs = ev.before[AsgLocation].gtLclOffs
               /\ nodes[ev.node].gtFieldSeq = ev.before[AsgLocation].gtFieldSeq
        /\ nodes[ev.node].gtType = ev.before[AsgLocation].gtType
        /\ Operands(nodes, ev.node) = <<AsgValue>>
        /\ InLinear(ev.node)
        /\ ~InLinear(AsgLocation)

\* an assignment to a local field became a GT_STORE_LCL_FLD
C7_Witness ==
    /\ LocalAssignment
    /\ ev.before[AsgLocation].oper = "GT_LCL_FLD"
    /\ nodes[ev.node].oper = "GT_STORE_LCL_FLD"
    /\ nodes[ev.node].gtLclOffs = 4
    /\ ~InLinear(AsgLocation)

AddrLocation == ev.before[ev.node].gtOp1

LocalAddress ==
    Applied("address") /\ ev.before[AddrLocation].oper \in {"GT_LCL_VAR", "GT_LCL_FLD"}

\* C8: after the address of a local variable or local field is rewritten, the
\* location node is the matching local-address kind, of byref type, with the
\* address node's side-effect flags; the consumer's slot holds it; the
\* address node is out of the linear sequence and no node was allocated.
C8_LocalAddr ==
    LocalAddress =>
        /\ Len(nodes) = Len(ev.before)
        /\ nodes[AddrLocation].oper = IF ev.before[AddrLocation].oper = "GT_LCL_VAR"
                                       THEN "GT_LCL_VAR_ADDR" ELSE "GT_LCL_FLD_ADDR"
        /\ nodes[AddrLocation].gtType = "TYP_BYREF"
        /\ Effects(nodes, AddrLocation) = Effects(ev.before, ev.node)
        /\ ~ev.dummy => UseSlot = AddrLocation
        /\ InLinear(AddrLocation)
        /\ ~InLinear(ev.node)

\* the address of a local field with a consumer became a GT_LCL_FLD_ADDR
C8_Witness ==
    /\ LocalAddress
    /\ ~ev.dummy
    /\ ev.before[AddrLocation].oper = "GT_LCL_FLD"
    /\ nodes[AddrLocation].oper = "GT_LCL_FLD_ADDR"
    /\ UseSlot = AddrLocation

\* C9: after the pre-pass rewrote an intrinsic into a call, every ancestor
\* that was on the stack has GTF_CALL and the call's side-effect flags and
\* kept the flags it had, and the stack has the call in place of the
\* intrinsic at the same height.
C9_CallFlagsPropagated ==
    Applied("intrinsicToCall") =>
        /\ nodes[ev.new].oper = "GT_CALL"
        /\ \A i \in 2..Len(ev.ps) :
               /\ "GTF_CALL" \in nodes[ev.ps[i]].gtFlags
               /\ Effects(nodes, ev.new) \subseteq nodes[ev.ps[i]].gtFlags
               /\ ev.before[ev.ps[i]].gtFlags \subseteq nodes[ev.ps[i]].gtFlags
        /\ Len(ev.psAfter) = Len(ev.ps)
        /\ ev.psAfter[1] = ev.new
        /\ ev.ps[1] = ev.node
        /\ Tail(ev.psAfter) = Tail(ev.ps)

\* an intrinsic with several ancestors, the nearest without GTF_CALL, was
\* rewritten
C9_Witness ==
    /\ Applied("intrinsicToCall")
    /\ Len(ev.ps) >= 3
    /\ "GTF_CALL" \notin ev.before[ev.ps[2]].gtFlags
    /\ "GTF_GLOB_REF" \notin ev.before[ev.ps[3]].gtFlags
    /\ \A i \in 2..Len(ev.ps) : "GTF_GLOB_REF" \in nodes[ev.ps[i]].gtFlags

\* the kinds of local-variable nodes
LocalKinds == {"GT_LCL_VAR", "GT_LCL_FLD", "GT_REG_VAR", "GT_PHI_ARG", "GT_LCL_VAR_ADDR",
               "GT_LCL_FLD_ADDR", "GT_STORE_LCL_VAR", "GT_STORE_LCL_FLD"}

ReadKinds == {"GT_LCL_VAR", "GT_LCL_FLD"}

AddrKinds == {"GT_LCL_VAR_ADDR", "GT_LCL_FLD_ADDR"}

\* storeForm(loadForm(formK)) was computed and is defined
StoreOfLoadDefined ==
    /\ Len(formLog) = 2
    /\ formLog[1].fn = "loadForm"
    /\ formLog[2].fn = "storeForm"
    /\ formLog[2].res # FATAL

\* computing storeForm(loadForm(formK)) failed, in loadForm or in storeForm
StoreOfLoadFailed ==
    \/ Len(formLog) = 1 /\ formLog[1].fn = "loadForm" /\ formLog[1].res = FATAL
    \/ /\ Len(formLog) = 2
       /\ formLog[1].fn = "loadForm"
       /\ formLog[2].fn = "storeForm"
       /\ formLog[2].res = FATAL

\* C10 as stated: for a local-variable kind k, storeForm(loadForm(k)) is
\* defined if and only if k is a read kind.
C10_DefinedIffRead ==
    formK \in LocalKinds =>
        /\ StoreOfLoadDefined => formK \in ReadKinds
        /\ StoreOfLoadFailed => formK \notin ReadKinds

\* C10 amended: for a local-variable kind k, storeForm(loadForm(k)) is
\* defined if and only if k is a local-address kind; it is then the store
\* kind of the local that the address kind names.
C10_DefinedIffAddr ==
    formK \in LocalKinds =>
        /\ StoreOfLoadDefined =>
               /\ formK \in AddrKinds
               /\ formLog[2].res = IF formK = "GT_LCL_VAR_ADDR" THEN "GT_STORE_LCL_VAR"
                                    ELSE "GT_STORE_LCL_FLD"
        /\ StoreOfLoadFailed => formK \notin AddrKinds

\* storeForm(loadForm(GT_LCL_FLD_ADDR)) was computed and is GT_STORE_LCL_FLD
C10_Witness ==
    /\ formK = "GT_LCL_FLD_ADDR"
    /\ StoreOfLoadDefined
    /\ formLog[2].res = "GT_STORE_LCL_FLD"

\* the chain applied to formK so far is f, or f followed by g
FormChain1(f) == Len(formLog) >= 1 /\ formLog[1].fn = f

FormChain2(f, g) == Len(formLog) = 2 /\ formLog[1].fn = f /\ formLog[2].fn = g

\* C11: loadForm(addrForm(k)) = k for each local read kind k,
\* addrForm(loadForm(a)) = a for each local address kind a, and addrForm and
\* loadForm fail on every kind outside the read kinds and the address kinds
\* respectively.
C11_RoundTrip ==
    /\ (formK \in ReadKinds /\ FormChain2("addrForm", "loadForm")) => formLog[2].res = formK
    /\ (formK \in AddrKinds /\ FormChain2("loadForm", "addrForm")) => formLog[2].res = formK
    /\ (formK \notin ReadKinds /\ FormChain1("addrForm")) => formLog[1].res = FATAL
    /\ (formK \notin AddrKinds /\ FormChain1("loadForm")) => formLog[1].res = FATAL
    /\ (formK \in ReadKinds /\ FormChain1("addrForm")) => formLog[1].res \in AddrKinds
    /\ (formK \in AddrKinds /\ FormChain1("loadForm")) => formLog[1].res \in ReadKinds

\* the read kind GT_LCL_FLD went to its address kind and back
C11_Witness ==
    /\ formK = "GT_LCL_FLD"
    /\ FormChain2("addrForm", "loadForm")
    /\ formLog[1].res = "GT_LCL_FLD_ADDR"
    /\ formLog[2].res = "GT_LCL_FLD"

\* every block has been through the block loop of DoPhase
AllBlocksProcessed ==
    /\ curBlock = Len(blocks) + 1
    /\ frames = <<>>
    /\ \A b \in 1..Len(blocks) : blocks[b].isLIR

\* C12: compRationalIRForm is false until every block has been processed, it
\* becomes true in one step, the one that ends the phase after the last
\* block, it is never cleared, and a run that fails never sets it.
C12_FlagSetOnce ==
    /\ [](compRationalIRForm <=> pc = "done")
    /\ [](pc = "done" => AllBlocksProcessed)
    /\ [][/\ compRationalIRForm => compRationalIRForm'
          /\ (~compRationalIRForm /\ compRationalIRForm') =>
                 (pc = "block" /\ curBlock > Len(blocks) /\ pc' = "done")
          /\ pc = "fatal" => (pc' = "fatal" /\ ~compRationalIRForm')]_vars

\* the phase ended after two blocks with statements, and the flag is set
C12_Witness ==
    /\ pc = "done"
    /\ compRationalIRForm
    /\ Len(blocks) = 2
    /\ \A b \in 1..2 : blocks[b].bbTreeList # 0
    /\ ev.rule \notin {"none", "fatal"}

\* the location kinds RewriteAssignment has a store for
StoreCatalogue == {"GT_LCL_VAR", "GT_LCL_FLD", "GT_IND", "GT_CLS_VAR", "GT_BLK", "GT_OBJ",
                   "GT_DYN_BLK"}

\* RewriteNode is about to be called on an assignment with location kind k
AssignmentOf(k) ==
    /\ pc = "rewrite"
    /\ nodes[CurNode].oper = "GT_ASG"
    /\ nodes[nodes[CurNode].gtOp1].oper = k

\* C13: rewriting an assignment whose location kind is outside the supported
\* kinds, GT_REG_VAR and GT_PHI_ARG included, fails without changing a node,
\* and no step follows a failure.
C13_AssignmentFatal ==
    /\ [][\A k \in genTreeOps \ StoreCatalogue :
              AssignmentOf(k) =>
                  (pc' = "fatal" /\ ev'.rule = "fatal" /\ nodes' = nodes /\ blocks' = blocks)]_vars
    /\ [][pc # "fatal"]_vars

\* an assignment to a constant ended the phase
C13_Witness ==
    /\ pc = "fatal"
    /\ ev.rule = "fatal"
    /\ ev.before[ev.node].oper = "GT_ASG"
    /\ ev.before[ev.before[ev.node].gtOp1].oper = "GT_CNS_INT"
    /\ nodes = ev.before
    /\ ~compRationalIRForm

\* the rules of the rewrite pass, as recorded in ev
RewriteRules == {"assignment", "address", "box", "nop", "comma", "argplace", "clsVar", "list",
                 "other"}

\* C14: blocks are taken in program order; in a block the pre-pass walks the
\* statements in program order, all of them before MakeLIR marks the block's
\* first and last node, and MakeLIR comes before any GT_IL_OFFSET node is
\* made and before any rewrite rule runs in the block; while the pre-pass
\* walks a statement, its first node has no predecessor and its root no
\* successor.
C14_PhaseOrder ==
    /\ [](pc \in {"prepass", "makeLIR"} => ~blocks[curBlock].isLIR)
    /\ [](pc = "prepass" => /\ nodes[nodes[curStmt].gtStmtList].gtPrev = 0
                            /\ nodes[nodes[curStmt].gtOp1].gtNext = 0)
    /\ [](pc \in {"stmt", "rewrite"} => blocks[curBlock].isLIR)
    /\ [](\A b \in 1..Len(blocks) : /\ b < curBlock => blocks[b].isLIR
                                    /\ b > curBlock => ~blocks[b].isLIR)
    /\ [][/\ curBlock' \in {curBlock, curBlock + 1}
          /\ (pc # "prepass" /\ pc' = "prepass") =>
                 (pc = "block" /\ curStmt' = blocks[curBlock].bbTreeList)
          /\ (pc = "prepass" /\ curStmt' # curStmt) =>
                 (pc' = "prepass" /\ curStmt' = nodes[curStmt].gtNext)
          /\ (pc # "makeLIR" /\ pc' = "makeLIR") =>
                 (pc = "prepass" /\ nodes[curStmt].gtNext = 0)
          /\ (\E n \in 1..Len(nodes) : /\ nodes'[n].oper = "GT_IL_OFFSET"
                                       /\ nodes[n].oper # "GT_IL_OFFSET") => pc = "stmt"
          /\ (ev' # ev /\ ev'.rule \in RewriteRules) => pc = "rewrite"]_vars

\* the second block's two statements went through the pre-pass and are
\* chained, the block is marked, and its rewrite pass is about to start
C14_Witness ==
    /\ pc = "stmt"
    /\ curBlock = 2
    /\ blocks[1].isLIR
    /\ blocks[2].isLIR
    /\ curStmt = blocks[2].bbTreeList
    /\ nodes[curStmt].gtNext # 0
    /\ nodes[nodes[nodes[curStmt].gtNext].gtStmtList].gtPrev = nodes[curStmt].gtOp1
    /\ blocks[2].firstNode = nodes[curStmt].gtStmtList

\* the owning-call lookup as C15 words it: from ps[i] outwards, GT_LIST and
\* GT_ARGPLACE are passed over, a GT_NOP whose operand is a call yields that
\* call, a GT_CALL yields itself, and any other ancestor ends the lookup
RECURSIVE ClimbAsStated(_, _, _)
ClimbAsStated(ns, ps, i) ==
    IF i > Len(ps) THEN 0
    ELSE CASE ns[ps[i]].oper \in {"GT_LIST", "GT_ARGPLACE"} -> ClimbAsStated(ns, ps, i + 1)
           [] ns[ps[i]].oper = "GT_CALL" -> ps[i]
           [] /\ ns[ps[i]].oper = "GT_NOP"
              /\ ns[ps[i]].gtOp1 # 0
              /\ ns[ns[ps[i]].gtOp1].oper = "GT_CALL" -> ns[ps[i]].gtOp1
           [] OTHER -> 0

\* a visitor is about to be called with parentStack
InWalk == pc \in {"prepass", "rewrite"} /\ parentStack # <<>>

\* C15: on every stack of ancestors a walk presents, isNodeCallArg gives the
\* result of the lookup that passes over only GT_LIST, GT_ARGPLACE and a
\* GT_NOP wrapping a call, and gives no call at any other ancestor.
C15_ClimbAsStated ==
    InWalk => isNodeCallArg(nodes, parentStack) = ClimbAsStated(nodes, parentStack, 2)

\* the last rule replaced the node in a consumer's slot, and the slot belongs
\* to an argument of FixupCall
FixupCall == isNodeCallArg(nodes, ev.ps)

ArgReplaced ==
    /\ ev.rule \in RewriteRules \cup {"intrinsicToCall"}
    /\ ~ev.dummy
    /\ UseSlot # ev.node
    /\ FixupCall # 0

OldArgLate == "GTF_LATE_ARG" \in ev.before[ev.node].gtFlags

\* C16: when an argument of a call is replaced and the old node is marked
\* GTF_LATE_ARG, the new node is marked and the call's table is as before;
\* when the old node is not marked, the one entry that recorded it records
\* the new node, the other entries are as before, and the new node is not
\* marked by the fixup.
C16_LateArgFrame ==
    ArgReplaced =>
        IF OldArgLate
        THEN /\ "GTF_LATE_ARG" \in nodes[UseSlot].gtFlags
             /\ nodes[FixupCall].argTab = ev.before[FixupCall].argTab
        ELSE /\ Cardinality({i \in 1..Len(ev.before[FixupCall].argTab) :
                                 ev.before[FixupCall].argTab[i].node = ev.node}) = 1
             /\ Len(nodes[FixupCall].argTab) = Len(ev.before[FixupCall].argTab)
             /\ \A i \in 1..Len(ev.before[FixupCall].argTab) :
                    nodes[FixupCall].argTab[i] =
                        IF ev.before[FixupCall].argTab[i].node = ev.node
                        THEN [ev.before[FixupCall].argTab[i] EXCEPT !.node = UseSlot]
                        ELSE ev.before[FixupCall].argTab[i]
             /\ "GTF_LATE_ARG" \in nodes[UseSlot].gtFlags =>
                    (UseSlot <= Len(ev.before) /\ "GTF_LATE_ARG" \in ev.before[UseSlot].gtFlags)

\* a late argument was replaced by a node that did not carry the marker: the
\* new node carries it now, and the table still records the old node
C16_Witness ==
    /\ ArgReplaced
    /\ OldArgLate
    /\ UseSlot <= Len(ev.before) => "GTF_LATE_ARG" \notin ev.before[UseSlot].gtFlags
    /\ "GTF_LATE_ARG" \in nodes[UseSlot].gtFlags
    /\ nodes[FixupCall].argTab = ev.before[FixupCall].argTab
    /\ \E i \in 1..Len(nodes[FixupCall].argTab) : nodes[FixupCall].argTab[i].node = ev.node

\* n is scaffolding as C17 words it: a GT_LIST that is not an aggregate, or a
\* GT_ARGPLACE
IsScaffolding(n) == IsScaffoldList(n) \/ n.oper = "GT_ARGPLACE"

\* the scaffolding nodes in the unbroken run just before node n in the
\* linear order of ns
RECURSIVE ScaffoldRun(_, _)
ScaffoldRun(ns, n) ==
    IF ns[n].gtPrev # 0 /\ IsScaffolding(ns[ns[n].gtPrev])
    THEN {ns[n].gtPrev} \cup ScaffoldRun(ns, ns[n].gtPrev)
    ELSE {}

\* the nodes in the linear sequences of the blocks
LinearSet == UNION {SeqToSet(LinearSeq(b)) : b \in 1..Len(blocks)}

\* the nodes are what they were, apart from their links in linear order
OnlyLinksChanged ==
    /\ Len(nodes') = Len(nodes)
    /\ \A n \in 1..Len(nodes) :
           nodes'[n] = [nodes[n] EXCEPT !.gtPrev = nodes'[n].gtPrev, !.gtNext = nodes'[n].gtNext]

\* C17: a call of RewriteNode that does not fail removes every GT_LIST that
\* is not an aggregate and every GT_ARGPLACE of the unbroken run just before
\* the current node; a GT_LIST that is an aggregate stays in the linear order;
\* when the current node is a GT_LIST that is not an aggregate, it and that
\* run are removed and nothing else changes; a GT_ARGPLACE met as the current
\* node is removed.
C17_ScaffoldingStripped ==
    [][(pc = "rewrite" /\ pc' # "fatal") =>
           /\ ScaffoldRun(nodes, CurNode) \cap LinearSet' = {}
           /\ \A n \in LinearSet :
                  (nodes[n].oper = "GT_LIST" /\ IsAggregate(nodes[n])) => n \in LinearSet'
           /\ IsScaffoldList(nodes[CurNode]) =>
                  /\ LinearSet' = LinearSet \ (ScaffoldRun(nodes, CurNode) \cup {CurNode})
                  /\ OnlyLinksChanged
                  /\ ev'.rule = "list"
           /\ nodes[CurNode].oper = "GT_ARGPLACE" => CurNode \notin LinearSet']_vars

\* a rule ran on a node that had two list nodes just before it, and both are
\* out of the linear order
C17_Witness ==
    /\ ev.rule \in RewriteRules
    /\ Cardinality(ScaffoldRun(ev.before, ev.node)) >= 2
    /\ ScaffoldRun(ev.before, ev.node) \cap LinearSet = {}
    /\ \A n \in ScaffoldRun(ev.before, ev.node) : nodes[n].oper = "GT_LIST"

\* RewriteNode is about to be called on a statement root that is a local
\* read without side-effect flags
RootLocalRead ==
    /\ pc = "rewrite"
    /\ Len(parentStack) < 2
    /\ OperIsLocalRead(nodes[CurNode].oper)
    /\ Effects(nodes, CurNode) = {}

\* n is in the linear order, is a local read without side-effect flags, and
\* no node of the linear order has it as an operand
UnusedLocalRead(n) ==
    /\ n \in LinearSet
    /\ OperIsLocalRead(nodes[n].oper)
    /\ Effects(nodes, n) = {}
    /\ \A m \in LinearSet : n \notin SeqToSet(Operands(nodes, m))

\* the pruning step of C18: a statement root that is a bare local read leaves
\* the linear order and its local's reference count goes down by one
C18_RootReadPruned ==
    [][(RootLocalRead /\ pc' # "fatal") =>
           /\ CurNode \notin LinearSet'
           /\ lvaRefCnt' = [lvaRefCnt EXCEPT ![nodes[CurNode].gtLclNum] = @ - 1]]_vars

\* C18: a statement root that is a bare local read without side-effect flags
\* is removed and its local's reference count decremented once, and after
\* the phase no unused bare local read is left as the root of a statement.
C18_NoUnusedLocalRead ==
    /\ C18_RootReadPruned
    /\ [](pc = "done" => \A n \in 1..Len(nodes) : ~UnusedLocalRead(n))

\* the flags of the GT_STOREIND the last rule made, of the assignment it was
\* made for, and of the dereference that was the assignment's location
StoreIndFlags == nodes[Len(nodes)].gtFlags

AsgFlags == ev.before[ev.node].gtFlags

IndFlags == ev.before[AsgLocation].gtFlags

\* C19 as stated: in the side-effect flags and in the indirection flags the
\* new GT_STOREIND has the union of the assignment's and the dereference's
\* bits, and it has GTF_REVERSE_OPS exactly when the assignment had it.
C19_StoreIndFlagsUnion ==
    IndAssignment =>
        /\ StoreIndFlags \cap GTF_ALL_EFFECT = (AsgFlags \cup IndFlags) \cap GTF_ALL_EFFECT
        /\ StoreIndFlags \cap GTF_IND_FLAGS = (AsgFlags \cup IndFlags) \cap GTF_IND_FLAGS
        /\ "GTF_REVERSE_OPS" \in StoreIndFlags <=> "GTF_REVERSE_OPS" \in AsgFlags

\* C19 amended: the new GT_STOREIND has the side-effect flags of the
\* assignment, the indirection flags of the dereference, and
\* GTF_REVERSE_OPS exactly when the assignment had it.
C19_StoreIndFlagsSplit ==
    IndAssignment =>
        /\ StoreIndFlags \cap GTF_ALL_EFFECT = AsgFlags \cap GTF_ALL_EFFECT
        /\ StoreIndFlags \cap GTF_IND_FLAGS = IndFlags \cap GTF_IND_FLAGS
        /\ "GTF_REVERSE_OPS" \in StoreIndFlags <=> "GTF_REVERSE_OPS" \in AsgFlags

\* an assignment carrying an indirection flag its dereference did not carry
\* was rewritten: the store has the dereference's indirection flags only
C19_Witness ==
    /\ IndAssignment
    /\ (AsgFlags \cap GTF_IND_FLAGS) \ IndFlags # {}
    /\ IndFlags \cap GTF_IND_FLAGS # {}
    /\ StoreIndFlags \cap GTF_IND_FLAGS = IndFlags \cap GTF_IND_FLAGS
    /\ StoreIndFlags \cap GTF_ALL_EFFECT = AsgFlags \cap GTF_ALL_EFFECT

====
